---- MODULE Spec2Model ----
(***************************************************************************)
(* A model of the Vryzen economy bot: the in-memory ledger store           *)
(* (database/db.js), the gambling, banking, company, market and PvP        *)
(* command handlers, and the interleaving of handlers at their awaits.     *)
(*                                                                         *)
(* Scheduling.  index.js registers an async 'messages.upsert' listener, so *)
(* the handlers of different events interleave at every await that waits   *)
(* for I/O (a message send) and at every setTimeout.  A handler runs       *)
(* without interruption from the getUser(sender) of handleMessage to its   *)
(* first send; every action below is one such uninterrupted segment.       *)
(*                                                                         *)
(* Money.  Coin amounts are JavaScript numbers.  The wheel (0.5x, 1.5x)    *)
(* and the natural blackjack (2.5x) multiply a stake by a half-integer, so *)
(* a balance is a dyadic rational.  Every coin amount of the model is an   *)
(* integer count of 1/Unit coins; Coins(n) is n whole coins.               *)
(***************************************************************************)
EXTENDS Integers, Sequences, FiniteSets, Bags, TLC

\* ------------------------------------------------------------------ bounds
\* How many times a balance may be halved exactly (Unit = 2^HalvingDepth).
HalvingDepth == 1
\* Bets (settled or awaiting their reveal) per identity.
MaxGames == 2
\* Delayed bets (slots, wheel, high stakes) awaiting their reveal at once.
MaxPending == 1
\* Cards a blackjack hand may hold.
MaxHand == 3
\* Blackjack handlers suspended at a send at once.
MaxTasks == 2

\* ------------------------------------------------------- program constants
minBet == 10
maxBet == 1000000
xpPerBet == 10
xpPerWin == 25
xpPerLoss == 5
startingBalance == 1000
initialBankCapacity == 10000
highStakesMinBet == 100
MsPerDay == 86400000
msPerHour == 3600000
\* challengeTimeout, in seconds.
challengeTimeout == 60
maxChallengesPerHour == 5
rematchMinBet == 100

Users == {"u1", "u2", "u3"}

RECURSIVE Pow2(_)
Pow2(n) == IF n = 0 THEN 1 ELSE 2 * Pow2(n - 1)

Unit == Pow2(HalvingDepth)
Coins(n) == n * Unit
IsWhole(x) == x % Unit = 0
\* floor(x) of an amount x >= 0 held in 1/Unit coins
Floor(x) == (x \div Unit) * Unit

\* ------------------------------------------------------------------- state
VARIABLES
  users,        \* db.users: identity -> user record (only created identities)
  usernames,    \* db.usernames: lower-cased username -> identity
  pending,      \* bag of delayed bets between validation and their setTimeout callback
  bjGames,      \* activeBlackjackGames: identity -> open game
  bjTasks,      \* bag of blackjack handlers suspended at a send
  lastSettle,   \* history: the last updateStats call, its writes and its result
  bjAgain,      \* history: a blackjack start has arrived while the sender's game was open
  now,          \* Date.now(), in milliseconds
  bankTasks,    \* bag of deposits suspended at their capacity notice
  companies,    \* db.companies: key -> company record
  closeTasks,   \* bag of company closures suspended at an investor's notice
  companyOps,   \* history: how many company commands were carried out
  orders,       \* db.market.orders: the book, in array order
  listings,     \* history: per sell listing, what was listed, filled and returned
  challenges,   \* db.pvp.challenges: id -> challenge record
  challengeCount, \* history: how many challenges were created
  jackpot       \* db.jackpot: its entries, in array order, and their total

gambleVars == <<pending, bjGames, bjTasks, lastSettle, bjAgain>>
bankVars == <<bankTasks>>
companyVars == <<companies, closeTasks, companyOps>>
marketVars == <<orders, listings>>
pvpVars == <<challenges, challengeCount>>
registerVars == <<usernames>>
jackpotVars == <<jackpot>>
vars ==
  <<users, registerVars, gambleVars, now, bankVars, companyVars, marketVars, pvpVars,
    jackpotVars>>

\* What the handlers of one command family never touch.
notGamble == <<registerVars, now, bankVars, companyVars, marketVars, pvpVars, jackpotVars>>
notBank == <<registerVars, gambleVars, companyVars, marketVars, pvpVars, jackpotVars>>
notCompany == <<registerVars, gambleVars, now, bankVars, marketVars, pvpVars, jackpotVars>>
notMarket == <<registerVars, gambleVars, now, bankVars, companyVars, pvpVars, jackpotVars>>
notPvp == <<registerVars, gambleVars, bankVars, companyVars, marketVars, jackpotVars>>
notRegister == <<gambleVars, now, bankVars, companyVars, marketVars, pvpVars, jackpotVars>>
notJackpot ==
  <<registerVars, gambleVars, now, bankVars, companyVars, marketVars, pvpVars>>

\* ------------------------------------------------------------ ledger store
\* A JavaScript object used as a map, as a function on its keys.
NoHoldings == [k \in {} |-> 0]
\* map[key] || 0
Get(map, key) == IF key \in DOMAIN map THEN map[key] ELSE 0
\* { ...map, [key]: value }
SetKey(map, key, value) ==
  [k \in DOMAIN map \cup {key} |-> IF k = key THEN value ELSE map[k]]
\* delete map[key]
DelKey(map, key) == [k \in DOMAIN map \ {key} |-> map[k]]

RECURSIVE SumValues(_)
SumValues(map) ==
  IF DOMAIN map = {} THEN 0
  ELSE LET k == CHOOSE k \in DOMAIN map : TRUE
       IN  map[k] + SumValues(DelKey(map, k))

\* The record getUser creates for an unknown identity (joinDate, only
\* displayed, is left out); <<>> and 0 stand for null.
DefaultUser(userId) ==
  [ id |-> userId,
    username |-> <<>>,
    isRegistered |-> FALSE,
    lastDailyReward |-> 0,
    dailyStreak |-> 0,
    balance |-> Coins(startingBalance),
    bankBalance |-> 0,
    bankCapacity |-> Coins(initialBankCapacity),
    xp |-> 0,
    level |-> 1,
    prestige |-> 0,
    gamesPlayed |-> 0,
    gamesWon |-> 0,
    investedCompanies |-> NoHoldings,
    shares |-> NoHoldings,
    challengesMade |-> 0,
    lastChallengeTime |-> 0,
    lastOpponent |-> "none" ]

\* db after getUser(userId): the record is created on first reference.
getUser(db, userId) ==
  IF userId \in DOMAIN db THEN db ELSE (userId :> DefaultUser(userId)) @@ db

\* { ...old, ...updates }: a spread of a missing record contributes nothing.
Merge(old, updates) ==
  [f \in (DOMAIN old) \cup (DOMAIN updates) |->
     IF f \in DOMAIN updates THEN updates[f] ELSE old[f]]

updateUser(db, userId, updates) ==
  LET old == IF userId \in DOMAIN db THEN db[userId] ELSE <<>>
  IN  (userId :> Merge(old, updates)) @@ db

\* --------------------------------------------------------------- usernames
\* A username is the sequence of its characters.
UpperCase == <<"A", "B", "C", "D", "E", "F", "G", "H", "I", "J", "K", "L", "M",
               "N", "O", "P", "Q", "R", "S", "T", "U", "V", "W", "X", "Y", "Z">>
LowerCase == <<"a", "b", "c", "d", "e", "f", "g", "h", "i", "j", "k", "l", "m",
               "n", "o", "p", "q", "r", "s", "t", "u", "v", "w", "x", "y", "z">>
Digits == {"0", "1", "2", "3", "4", "5", "6", "7", "8", "9"}

lowerChar(c) ==
  IF \E i \in 1..Len(UpperCase) : UpperCase[i] = c
    THEN LowerCase[CHOOSE i \in 1..Len(UpperCase) : UpperCase[i] = c]
    ELSE c

\* A normalisation that keeps the case of every character.
keepCase(username) == username

\* username.toLowerCase()
toLowerCase(username) == [i \in 1..Len(username) |-> lowerChar(username[i])]

\* /^[a-zA-Z0-9_]+$/.test(username)
wellFormed(username) ==
  /\ Len(username) > 0
  /\ \A i \in 1..Len(username) :
       \/ \E k \in 1..Len(UpperCase) : username[i] \in {UpperCase[k], LowerCase[k]}
       \/ username[i] \in Digits \cup {"_"}

isUsernameAvailable(names, username) == toLowerCase(username) \notin DOMAIN names

\* registerUsername: the two stores after the call (unchanged when the name
\* is taken).
registerUsername(db, names, userId, username) ==
  LET normalizedUsername == toLowerCase(username)
  IN  IF normalizedUsername \in DOMAIN names
        THEN [users |-> db, usernames |-> names]
        ELSE [ users |-> updateUser(db, userId, [username |-> username, isRegistered |-> TRUE]),
               usernames |-> SetKey(names, normalizedUsername, userId) ]

\* ---------------------------------------------------------------- XP, level
\* Math.floor(Math.sqrt(xp / 100) + 1)
RECURSIVE LevelFrom(_, _)
LevelFrom(xp, n) == IF (n + 1) * (n + 1) * 100 <= xp THEN LevelFrom(xp, n + 1) ELSE n + 1

calculateLevel(xp) == LevelFrom(xp, 0)

\* The update addXP writes for `amount` XP.
addXPUpdate(db, userId, amount) ==
  LET user == getUser(db, userId)[userId]
      newXP == user.xp + amount
      newLevel == calculateLevel(newXP)
  IN  IF newLevel > user.level
        THEN [xp |-> newXP, level |-> newLevel]
        ELSE [xp |-> newXP]

addXP(db, userId, amount) ==
  updateUser(getUser(db, userId), userId, addXPUpdate(db, userId, amount))

\* ------------------------------------------------------------ bet validation
\* A command's amount argument: the word "all", digits, or anything else.
BetTokens ==
  { [kind |-> "all", val |-> 0], [kind |-> "nan", val |-> 0] } \cup
  { [kind |-> "int", val |-> n] : n \in {5, 11} }

\* parseInt(amount), or `allValue` for "all"; nan is isNaN of the result.
ParseAmount(token, allValue) ==
  [ nan |-> token.kind = "nan",
    val |-> IF token.kind = "all" THEN allValue
            ELSE IF token.kind = "int" THEN Coins(token.val) ELSE 0 ]

validateBet(token, user) ==
  LET amount == ParseAmount(token, user.balance)
  IN  IF amount.nan \/ amount.val <= 0
        THEN [ok |-> FALSE, amount |-> 0, error |-> "InvalidAmount"]
      ELSE IF amount.val > user.balance
        THEN [ok |-> FALSE, amount |-> 0, error |-> "InsufficientFunds"]
      ELSE IF amount.val < Coins(minBet)
        THEN [ok |-> FALSE, amount |-> 0, error |-> "BelowMinimum"]
      ELSE IF amount.val > Coins(maxBet)
        THEN [ok |-> FALSE, amount |-> 0, error |-> "AboveMaximum"]
      ELSE [ok |-> TRUE, amount |-> amount.val, error |-> "none"]

\* --------------------------------------------------------------- settlement
\* A settlement that debits the stake and credits the payout in two separate
\* balance updates: the alternative the combined update of updateStats rules out.
updateStatsTwoWrites(db, userId, betAmount, winAmount, isWin) ==
  LET db0 == getUser(db, userId)
      user == db0[userId]
  IN  << [balance |-> user.balance - betAmount],
         [balance |-> user.balance - betAmount + winAmount,
          gamesPlayed |-> user.gamesPlayed + 1] >>

\* updateStats, as the store writes it issues, in order: the two addXP updates,
\* then the balance and counters computed from the record read on entry.
updateStatsWrites(db, userId, betAmount, winAmount, isWin) ==
  LET db0 == getUser(db, userId)
      user == db0[userId]
      updates == IF isWin
                   THEN [ balance |-> user.balance - betAmount + winAmount,
                          gamesPlayed |-> user.gamesPlayed + 1,
                          gamesWon |-> user.gamesWon + 1 ]
                   ELSE [ balance |-> user.balance - betAmount + winAmount,
                          gamesPlayed |-> user.gamesPlayed + 1 ]
      w1 == addXPUpdate(db0, userId, IF isWin THEN xpPerWin ELSE xpPerLoss)
      w2 == addXPUpdate(updateUser(db0, userId, w1), userId, xpPerBet)
  IN  <<w1, w2, updates>>

RECURSIVE ApplyWrites(_, _, _)
ApplyWrites(db, userId, writes) ==
  IF writes = <<>> THEN db
  ELSE ApplyWrites(updateUser(db, userId, Head(writes)), userId, Tail(writes))

updateStats(db, userId, betAmount, winAmount, isWin) ==
  ApplyWrites(getUser(db, userId), userId,
              updateStatsWrites(db, userId, betAmount, winAmount, isWin))

\* The history record of one updateStats call on store `db`.
SettleRecord(db, userId, betAmount, winAmount, isWin) ==
  [ user |-> userId, stake |-> betAmount, payout |-> winAmount,
    before |-> getUser(db, userId)[userId],
    writes |-> updateStatsWrites(db, userId, betAmount, winAmount, isWin),
    after |-> updateStats(db, userId, betAmount, winAmount, isWin)[userId] ]

NoSettle == [user |-> "none"]

\* --------------------------------------------------------------- game engine
CoinSides == {"heads", "tails"}
DiceFaces == 1..6
SlotSymbols == {"cherry", "orange", "lemon", "seven", "money", "star"}

slotMultiplier(symbol) ==
  CASE symbol = "cherry" -> 3
    [] symbol = "orange" -> 5
    [] symbol = "lemon" -> 7
    [] symbol = "seven" -> 10
    [] symbol = "money" -> 15
    [] symbol = "star" -> 20

\* playSlots: the middle row decides; the other two rows are only displayed.
playSlots(middleRow) ==
  LET win == middleRow[1] = middleRow[2] /\ middleRow[2] = middleRow[3]
  IN  [win |-> win, multiplier |-> IF win THEN slotMultiplier(middleRow[1]) ELSE 0]

\* spinWheel's options, each as twice its multiplier: 0, 0.5, 1, 1.5, 2, 3, 5, 10.
WheelTwice == {0, 1, 2, 3, 4, 6, 10, 20}

\* betAmount * multiplier for a multiplier given as twice its value; exact
\* whenever the product is even in 1/Unit coins.
TimesHalves(amount, twice) == (amount * twice) \div 2
ExactHalves(amount, twice) == (amount * twice) % 2 = 0

\* ------------------------------------------------------- gambling commands
RECURSIVE BagCount(_, _)
BagCount(bag, elems) ==
  IF elems = {} THEN 0
  ELSE LET e == CHOOSE x \in elems : TRUE
       IN  bag[e] + BagCount(bag, elems \ {e})

\* Delayed bets of `userId` awaiting their reveal.
PendingOf(userId) ==
  BagCount(pending, {p \in BagToSet(pending) : p.user = userId})

Played(db, userId) ==
  IF userId \in DOMAIN db THEN db[userId].gamesPlayed ELSE 0

\* The model stops taking bets from an identity after MaxGames of them.
MayBet(userId) ==
  Played(users, userId) + PendingOf(userId)
    + (IF userId \in DOMAIN bjGames THEN 1 ELSE 0) < MaxGames

Settle(db, userId, betAmount, winAmount, isWin) ==
  /\ users' = updateStats(db, userId, betAmount, winAmount, isWin)
  /\ lastSettle' = SettleRecord(db, userId, betAmount, winAmount, isWin)

\* A command that fails validation: handleMessage's getUser is its only effect.
Rejected(db) ==
  /\ users' = db
  /\ UNCHANGED <<pending, bjGames, bjTasks, lastSettle>>

handleCoinToss(sender, token, choice, result) ==
  LET db == getUser(users, sender)
      user == db[sender]
      bet == validateBet(token, user)
      isWin == choice = result
      winAmount == IF isWin THEN bet.amount * 2 ELSE 0
  IN  /\ MayBet(sender)
      /\ IF ~bet.ok THEN Rejected(db)
         ELSE /\ Settle(db, sender, bet.amount, winAmount, isWin)
              /\ UNCHANGED <<pending, bjGames, bjTasks>>

handleDice(sender, token, choice, result) ==
  LET db == getUser(users, sender)
      user == db[sender]
      bet == validateBet(token, user)
      isWin == choice = result
      winAmount == IF isWin THEN bet.amount * 5 ELSE 0
  IN  /\ MayBet(sender)
      /\ IF ~bet.ok THEN Rejected(db)
         ELSE /\ Settle(db, sender, bet.amount, winAmount, isWin)
              /\ UNCHANGED <<pending, bjGames, bjTasks>>

\* The part of a delayed game before its setTimeout: the bet is validated
\* against the handler's user record and nothing is written.
StartDelayed(sender, game, betAmount, choice) ==
  /\ BagCardinality(pending) < MaxPending
  /\ pending' = pending (+) SetToBag({[user |-> sender, game |-> game,
                                        betAmount |-> betAmount, choice |-> choice]})
  /\ users' = getUser(users, sender)
  /\ UNCHANGED <<bjGames, bjTasks, lastSettle>>

handleHighStakes(sender, token, choice) ==
  LET db == getUser(users, sender)
      bet == validateBet(token, db[sender])
  IN  /\ MayBet(sender)
      /\ IF ~bet.ok \/ bet.amount < Coins(highStakesMinBet) THEN Rejected(db)
         ELSE StartDelayed(sender, "highstakes", bet.amount, choice)

handleSlots(sender, token) ==
  LET db == getUser(users, sender)
      bet == validateBet(token, db[sender])
  IN  /\ MayBet(sender)
      /\ IF ~bet.ok THEN Rejected(db)
         ELSE StartDelayed(sender, "slots", bet.amount, "none")

handleWheelSpin(sender, token) ==
  LET db == getUser(users, sender)
      bet == validateBet(token, db[sender])
  IN  /\ MayBet(sender)
      /\ IF ~bet.ok THEN Rejected(db)
         ELSE StartDelayed(sender, "wheel", bet.amount, "none")

\* The setTimeout callbacks: the draw, then updateStats on the record the
\* store holds by then.
revealHighStakes(p, result) ==
  LET isWin == p.choice = result
      winAmount == IF isWin THEN p.betAmount * 10 ELSE 0
  IN  /\ BagIn(p, pending) /\ p.game = "highstakes"
      /\ pending' = pending (-) SetToBag({p})
      /\ Settle(users, p.user, p.betAmount, winAmount, isWin)
      /\ UNCHANGED <<bjGames, bjTasks>>

revealSlots(p, middleRow) ==
  LET slots == playSlots(middleRow)
      winAmount == IF slots.win THEN p.betAmount * slots.multiplier ELSE 0
  IN  /\ BagIn(p, pending) /\ p.game = "slots"
      /\ pending' = pending (-) SetToBag({p})
      /\ Settle(users, p.user, p.betAmount, winAmount, slots.win)
      /\ UNCHANGED <<bjGames, bjTasks>>

revealWheel(p, twice) ==
  LET winAmount == TimesHalves(p.betAmount, twice)
      isWin == twice > 2
  IN  /\ BagIn(p, pending) /\ p.game = "wheel"
      /\ ExactHalves(p.betAmount, twice)
      /\ pending' = pending (-) SetToBag({p})
      /\ Settle(users, p.user, p.betAmount, winAmount, isWin)
      /\ UNCHANGED <<bjGames, bjTasks>>

\* ----------------------------------------------------------------- blackjack
\* Card values (suits never matter); the model deals from DeckRanks.
CardRanks == {"2", "3", "4", "5", "6", "7", "8", "9", "10", "J", "Q", "K", "A"}
DeckRanks == {"A", "K", "6"}

cardPoints(rank) ==
  CASE rank = "A" -> 11
    [] rank \in {"K", "Q", "J", "10"} -> 10
    [] rank = "9" -> 9 [] rank = "8" -> 8 [] rank = "7" -> 7 [] rank = "6" -> 6
    [] rank = "5" -> 5 [] rank = "4" -> 4 [] rank = "3" -> 3 [] rank = "2" -> 2

RECURSIVE SumPoints(_)
SumPoints(hand) == IF hand = <<>> THEN 0 ELSE cardPoints(Head(hand)) + SumPoints(Tail(hand))

RECURSIVE CountRank(_, _)
CountRank(hand, rank) ==
  IF hand = <<>> THEN 0
  ELSE (IF Head(hand) = rank THEN 1 ELSE 0) + CountRank(Tail(hand), rank)

\* while (value > 21 && aces > 0) { value -= 10; aces-- }
RECURSIVE DemoteAces(_, _)
DemoteAces(value, aces) ==
  IF value > 21 /\ aces > 0 THEN DemoteAces(value - 10, aces - 1) ELSE value

calculateHandValue(hand) == DemoteAces(SumPoints(hand), CountRank(hand, "A"))

\* standBlackjack: the dealer draws from one fresh deck (four cards of a rank)
\* until 17 or more; the set of hands it can end with, `drawn` being the draws so far.
RECURSIVE standBlackjack(_, _)
standBlackjack(dealerHand, drawn) ==
  IF calculateHandValue(dealerHand) < 17
    THEN UNION { standBlackjack(Append(dealerHand, r), Append(drawn, r)) :
                 r \in {x \in DeckRanks : CountRank(drawn, x) < 4} }
    ELSE {dealerHand}

\* The payout of handleBlackjackStand for the open game.
standPayout(game, natural) ==
  LET playerValue == calculateHandValue(game.playerHand)
      dealerValue == calculateHandValue(game.dealerHand)
      betAmount == game.betAmount
  IN  IF natural /\ playerValue = 21 /\ Len(game.playerHand) = 2
        THEN TimesHalves(betAmount, 5)
      ELSE IF playerValue > 21 THEN 0
      ELSE IF dealerValue > 21 THEN betAmount * 2
      ELSE IF playerValue > dealerValue THEN betAmount * 2
      ELSE IF playerValue < dealerValue THEN 0
      ELSE betAmount

AddTask(task) == bjTasks' = bjTasks (+) SetToBag({task})

\* The model takes a new hit or stand only while few handlers are suspended.
MayPlay == BagCardinality(bjTasks) < MaxTasks

\* The 2.5x of a natural blackjack is exact in 1/Unit coins.
PayoutExact(game, natural) ==
  (natural /\ calculateHandValue(game.playerHand) = 21 /\ Len(game.playerHand) = 2)
    => ExactHalves(game.betAmount, 5)

\* A check that finds no game open, whatever activeBlackjackGames holds.
noGameOpen(userId) == FALSE

\* if (activeBlackjackGames[userId])
gameOpen(userId) == userId \in DOMAIN bjGames

\* handleBlackjack without hit/stand: shows the open game, or validates the
\* bet, deals and stores a new game (no coin moves); the continuation after
\* the display matters only for a natural blackjack.
handleBlackjack(sender, token, playerHand, dealerHand) ==
  LET db == getUser(users, sender)
      bet == validateBet(token, db[sender])
  IN  /\ bjAgain' = (bjAgain \/ sender \in DOMAIN bjGames)
      /\ IF gameOpen(sender) THEN Rejected(db)
         ELSE /\ MayBet(sender)
              /\ IF ~bet.ok THEN Rejected(db)
                 ELSE /\ bjGames' = (sender :> [ playerHand |-> playerHand,
                                                  dealerHand |-> dealerHand,
                                                  betAmount |-> bet.amount ]) @@ bjGames
                      /\ users' = db
                      /\ IF calculateHandValue(playerHand) = 21
                           THEN AddTask([user |-> sender, pc |-> "natural", betAmount |-> 0])
                           ELSE UNCHANGED bjTasks
                      /\ UNCHANGED <<pending, lastSettle>>

\* handleBlackjackStand's settlement of the game the store holds now; the
\* handler then sends two messages and only after them deletes the game.
StandSettle(db, userId, game, natural) ==
  LET winAmount == standPayout(game, natural)
  IN  /\ Settle(db, userId, game.betAmount, winAmount, winAmount > game.betAmount)
      /\ AddTask([user |-> userId, pc |-> "delete", betAmount |-> 0])

handleBlackjackStand(sender, finalDealerHand) ==
  LET db == getUser(users, sender)
      game == bjGames[sender]
  IN  /\ sender \in DOMAIN bjGames
      /\ MayPlay
      /\ finalDealerHand \in standBlackjack(game.dealerHand, <<>>)
      /\ bjGames' = [bjGames EXCEPT ![sender].dealerHand = finalDealerHand]
      /\ StandSettle(db, sender, [game EXCEPT !.dealerHand = finalDealerHand], FALSE)
      /\ UNCHANGED pending

\* handleBlackjack resumed after the first display of a natural blackjack:
\* handleBlackjackStand(natural = true) on whatever game is open by then.
resumeNatural(task) ==
  /\ BagIn(task, bjTasks) /\ task.pc = "natural"
  /\ IF task.user \in DOMAIN bjGames
       THEN LET game == bjGames[task.user]
                winAmount == standPayout(game, TRUE)
            IN  /\ PayoutExact(game, TRUE)
                /\ Settle(users, task.user, game.betAmount, winAmount,
                           winAmount > game.betAmount)
                /\ bjTasks' = (bjTasks (-) SetToBag({task}))
                                 (+) SetToBag({[user |-> task.user, pc |-> "delete",
                                                betAmount |-> 0]})
       ELSE /\ bjTasks' = bjTasks (-) SetToBag({task})
            /\ UNCHANGED <<users, lastSettle>>
  /\ UNCHANGED <<pending, bjGames>>

\* handleBlackjackHit: the card is pushed at once; a bust is settled only
\* after the display of the hand has been sent.
handleBlackjackHit(sender, card) ==
  LET game == bjGames[sender]
      newHand == Append(game.playerHand, card)
  IN  /\ sender \in DOMAIN bjGames
      /\ MayPlay
      /\ Len(game.playerHand) < MaxHand
      /\ bjGames' = [bjGames EXCEPT ![sender].playerHand = newHand]
      /\ users' = getUser(users, sender)
      /\ IF calculateHandValue(newHand) > 21
           THEN AddTask([user |-> sender, pc |-> "bust", betAmount |-> game.betAmount])
           ELSE UNCHANGED bjTasks
      /\ UNCHANGED <<pending, lastSettle>>

resumeHitBust(task) ==
  /\ BagIn(task, bjTasks) /\ task.pc = "bust"
  /\ Settle(users, task.user, task.betAmount, 0, FALSE)
  /\ bjTasks' = (bjTasks (-) SetToBag({task}))
                   (+) SetToBag({[user |-> task.user, pc |-> "delete", betAmount |-> 0]})
  /\ UNCHANGED <<pending, bjGames>>

\* delete activeBlackjackGames[userId], after the result has been sent.
resumeDelete(task) ==
  /\ BagIn(task, bjTasks) /\ task.pc = "delete"
  /\ bjTasks' = bjTasks (-) SetToBag({task})
  /\ bjGames' = [u \in (DOMAIN bjGames) \ {task.user} |-> bjGames[u]]
  /\ UNCHANGED <<users, pending, lastSettle>>

\* ------------------------------------------------------------ specifications
NoGames == [u \in {} |-> 0]

\* Everything but the users as the program starts.
InitRest ==
  /\ usernames = [name \in {toLowerCase(users[u].username) : u \in DOMAIN users} |->
                    CHOOSE u \in DOMAIN users : toLowerCase(users[u].username) = name]
  /\ pending = EmptyBag
  /\ bjGames = NoGames
  /\ bjTasks = EmptyBag
  /\ lastSettle = NoSettle
  /\ bjAgain = FALSE
  /\ now = MsPerDay
  /\ bankTasks = EmptyBag
  /\ companies = NoHoldings
  /\ closeTasks = EmptyBag
  /\ companyOps = 0
  /\ orders = <<>>
  /\ listings = <<>>
  /\ challenges = NoHoldings
  /\ challengeCount = 0
  /\ jackpot = [entries |-> <<>>, totalAmount |-> 0]

\* The username an identity of the model has registered: a string as the
\* sequence of its characters.
HandleOf(userId) ==
  CASE userId = "u1" -> <<"A", "n", "n">>
    [] userId = "u2" -> <<"b", "o", "b">>
    [] OTHER -> <<"C", "a", "t">>

\* The records of identities that have registered and done nothing else.
\* (handleCommand refuses the commands of an identity that has not registered,
\* so every sender of the model has.)
Registered(ids) ==
  [u \in ids |-> [DefaultUser(u) EXCEPT !.username = HandleOf(u), !.isRegistered = TRUE]]

Init == users = Registered(Users) /\ InitRest

\* Opening hands the model deals: a natural, a hand that busts on a hit, a
\* hand that stands well; a dealer who must draw and a dealer who stands.
PlayerHands == {<<"A", "K">>, <<"K", "6">>, <<"K", "K">>}
DealerHands == {<<"K", "6">>, <<"K", "K">>}
\* Middle rows the model spins: the cheapest and the dearest symbol.
SpunSymbols == {"cherry", "star"}
SlotRows == {<<a, b, c>> : a \in SpunSymbols, b \in SpunSymbols, c \in SpunSymbols}
\* Faces a dice player names; the die shows any face.
DiceChoices == {1, 6}

\* The senders of gambling commands.
Gamblers == {"u1"}

NextGamble ==
  \/ \E u \in Gamblers, t \in BetTokens, c \in CoinSides, r \in CoinSides :
        handleCoinToss(u, t, c, r) /\ UNCHANGED <<notGamble, bjAgain>>
  \/ \E u \in Gamblers, t \in BetTokens, c \in DiceChoices, r \in DiceFaces :
        handleDice(u, t, c, r) /\ UNCHANGED <<notGamble, bjAgain>>
  \/ \E u \in Gamblers, t \in BetTokens, c \in CoinSides :
        handleHighStakes(u, t, c) /\ UNCHANGED <<notGamble, bjAgain>>
  \/ \E u \in Gamblers, t \in BetTokens :
        handleSlots(u, t) /\ UNCHANGED <<notGamble, bjAgain>>
  \/ \E u \in Gamblers, t \in BetTokens :
        handleWheelSpin(u, t) /\ UNCHANGED <<notGamble, bjAgain>>
  \/ \E p \in BagToSet(pending), r \in CoinSides :
        revealHighStakes(p, r) /\ UNCHANGED <<notGamble, bjAgain>>
  \/ \E p \in BagToSet(pending), row \in SlotRows :
        revealSlots(p, row) /\ UNCHANGED <<notGamble, bjAgain>>
  \/ \E p \in BagToSet(pending), w \in WheelTwice :
        revealWheel(p, w) /\ UNCHANGED <<notGamble, bjAgain>>
  \/ \E u \in Gamblers, t \in BetTokens, ph \in PlayerHands, dh \in DealerHands :
        handleBlackjack(u, t, ph, dh) /\ UNCHANGED notGamble
  \/ \E u \in Gamblers, c \in DeckRanks :
        handleBlackjackHit(u, c) /\ UNCHANGED <<notGamble, bjAgain>>
  \/ \E u \in DOMAIN bjGames : \E h \in standBlackjack(bjGames[u].dealerHand, <<>>) :
        handleBlackjackStand(u, h) /\ UNCHANGED <<notGamble, bjAgain>>
  \/ \E task \in BagToSet(bjTasks) :
        resumeNatural(task) /\ UNCHANGED <<notGamble, bjAgain>>
  \/ \E task \in BagToSet(bjTasks) :
        resumeHitBust(task) /\ UNCHANGED <<notGamble, bjAgain>>
  \/ \E task \in BagToSet(bjTasks) :
        resumeDelete(task) /\ UNCHANGED <<notGamble, bjAgain>>

SpecGamble == Init /\ [][NextGamble]_vars

\* ------------------------------------------------------------------- wallets
\* C1: in every reachable state every user's wallet balance is >= 0, also when
\* bets are placed during the reveal delay of an earlier bet or while a
\* blackjack game is open.
WalletNonNegative == \A u \in DOMAIN users : users[u].balance >= 0

\* The writes of the last settlement that carry a balance.
BalanceWrites ==
  {i \in 1..Len(lastSettle.writes) : "balance" \in DOMAIN lastSettle.writes[i]}

\* C9: every settlement for (user, stake, payout) sets the wallet in exactly one
\* balance update to (wallet when settling) - stake + payout, and leaves the
\* bank balance and the bank capacity as they were.
SettlementIsOneUpdate ==
  lastSettle.user # "none" =>
    /\ Cardinality(BalanceWrites) = 1
    /\ lastSettle.after.balance =
         lastSettle.before.balance - lastSettle.stake + lastSettle.payout
    /\ lastSettle.after.bankBalance = lastSettle.before.bankBalance
    /\ lastSettle.after.bankCapacity = lastSettle.before.bankCapacity
    /\ users[lastSettle.user] = lastSettle.after

\* A winning settlement has been made: a stake debited and a larger payout
\* credited in the same update.
SettledAWin ==
  /\ lastSettle.user # "none"
  /\ lastSettle.stake > 0
  /\ lastSettle.payout > lastSettle.stake
  /\ users[lastSettle.user].balance > lastSettle.before.balance

\* C10: after the settlement of any game on any whole stake the wallet balance
\* is still a whole number of coins.
WalletIsWhole == \A u \in DOMAIN users : IsWhole(users[u].balance)

\* C11: a blackjack command that is neither hit nor stand and arrives while the
\* sender has an open game leaves every open game (hands and stake) as it
\* was, settles nothing, stakes nothing and moves no coin; the open games are
\* kept one per identity.
OpenGameIsOnlyShown ==
  [][(bjAgain' /\ ~bjAgain) =>
       /\ bjGames' = bjGames
       /\ lastSettle' = lastSettle
       /\ pending' = pending
       /\ users' = users]_vars

\* A start has arrived while a game was open, and that game is still open with
\* the stake it was started on.
StartedAgainWhileOpen ==
  /\ bjAgain
  /\ \E u \in DOMAIN bjGames : bjGames[u].betAmount > 0

\* C12: a stand leaves the dealer's hand drawn up to a value >= 17 and settles
\* the stake with payout 2x stake if the dealer busts or the player's value
\* exceeds the dealer's, 0 if the player's value is lower, and the stake on a
\* tie, which is not counted as a win.
StandPaysByTheRules ==
  [][\A u \in DOMAIN bjGames : \A h \in standBlackjack(bjGames[u].dealerHand, <<>>) :
       handleBlackjackStand(u, h) =>
         LET playerValue == calculateHandValue(bjGames[u].playerHand)
             dealerValue == calculateHandValue(h)
             betAmount == bjGames[u].betAmount
         IN  /\ dealerValue >= 17
             /\ lastSettle'.user = u
             /\ lastSettle'.stake = betAmount
             /\ lastSettle'.payout =
                  IF dealerValue > 21 \/ playerValue > dealerValue THEN betAmount * 2
                  ELSE IF playerValue < dealerValue THEN 0
                  ELSE betAmount
             /\ playerValue = dealerValue
                  => lastSettle'.after.gamesWon = lastSettle'.before.gamesWon]_vars

\* C13: the game started on two player cards worth 21 is resolved, when its
\* handler goes on after the first display, with payout 2.5x the stake, on
\* the dealer's two cards as dealt, and the removal of the game is under way.
NaturalPaysAtStart ==
  [][\A task \in BagToSet(bjTasks) :
       resumeNatural(task) =>
         /\ task.user \in DOMAIN bjGames
         /\ Len(bjGames[task.user].dealerHand) = 2
         /\ lastSettle'.user = task.user
         /\ lastSettle'.stake = bjGames[task.user].betAmount
         /\ lastSettle'.payout = TimesHalves(bjGames[task.user].betAmount, 5)
         /\ BagIn([user |-> task.user, pc |-> "delete", betAmount |-> 0], bjTasks')]_vars

\* C14: the step that validates a delayed bet (slots, wheel, high stakes) and
\* leaves it awaiting its reveal takes the stake from the wallet in that same
\* step.
StakeTakenWithValidation ==
  [][\A p \in BagToSet(pending') :
       CopiesIn(p, pending') > CopiesIn(p, pending)
         => users'[p.user].balance = users[p.user].balance - p.betAmount]_vars

\* ------------------------------------------------------------------ banking
\* A command's amount argument in the banking model.
BankTokens ==
  { [kind |-> "all", val |-> 0], [kind |-> "nan", val |-> 0] } \cup
  { [kind |-> "int", val |-> n] : n \in {4000} }
Savers == {"u1"}

\* The calendar day of an instant (getDate, getMonth and getFullYear together).
DayOf(t) == t \div MsPerDay

\* user.lastInterestClaim, 0 while the field is absent.
lastInterestClaim(user) ==
  IF "lastInterestClaim" \in DOMAIN user THEN user.lastInterestClaim ELSE 0

\* Math.floor(amount * rate) for a rate given in thousandths.
FloorPerMille(amount, perMille) == ((amount * perMille) \div (1000 * Unit)) * Unit

\* Calendar days the clock runs through.
MaxDays == 1
\* Deposits suspended at once.
MaxBankTasks == 1

\* A saver the owner has granted coins (addcoins adds to the wallet alone).
GrantedWallet == 17000
Granted(ids) == [u \in ids |-> [Registered(ids)[u] EXCEPT !.balance = Coins(GrantedWallet)]]

InitBank == users = Granted(Savers) /\ InitRest

\* Time passes to the next calendar day.
nextDay ==
  /\ DayOf(now) - DayOf(MsPerDay) < MaxDays
  /\ now' = now + MsPerDay
  /\ UNCHANGED <<users, notBank, bankVars>>

\* A deposit that moves what was asked for, whatever the remaining capacity.
depositUnclamped(amount, user) == amount

\* The amount a deposit moves: the request, cut to the remaining capacity.
depositAmount(amount, user) ==
  LET remainingCapacity == user.bankCapacity - user.bankBalance
  IN  IF amount > remainingCapacity THEN remainingCapacity ELSE amount

\* The write of a deposit, from the record the handler was given.
depositWrite(db, user, amount) ==
  updateUser(db, user.id, [ balance |-> user.balance - amount,
                            bankBalance |-> user.bankBalance + amount ])

handleDeposit(sender, token) ==
  LET db == getUser(users, sender)
      user == db[sender]
      parsed == ParseAmount(token, user.balance)
      amount == depositAmount(parsed.val, user)
  IN  /\ UNCHANGED <<notBank, now>>
      /\ IF parsed.nan \/ parsed.val <= 0 \/ parsed.val > user.balance
           THEN users' = db /\ UNCHANGED bankTasks
         ELSE IF parsed.val > user.bankCapacity - user.bankBalance
           THEN /\ BagCardinality(bankTasks) < MaxBankTasks
                /\ users' = db
                /\ bankTasks' = bankTasks (+) SetToBag({[user |-> user, amount |-> amount]})
         ELSE users' = depositWrite(db, user, amount) /\ UNCHANGED bankTasks

\* A deposit cut to the remaining capacity, after its notice was sent.
resumeDeposit(task) ==
  /\ bankTasks' = bankTasks (-) SetToBag({task})
  /\ users' = IF task.amount = 0 THEN users
              ELSE depositWrite(users, task.user, task.amount)
  /\ UNCHANGED <<notBank, now>>

handleWithdraw(sender, token) ==
  LET db == getUser(users, sender)
      user == db[sender]
      parsed == ParseAmount(token, user.bankBalance)
  IN  /\ users' = IF parsed.nan \/ parsed.val <= 0 \/ parsed.val > user.bankBalance
                    THEN db
                    ELSE updateUser(db, sender,
                           [ balance |-> user.balance + parsed.val,
                             bankBalance |-> user.bankBalance - parsed.val ])
      /\ UNCHANGED <<notBank, now, bankVars>>

\* A claim allowed only once a full day has passed since the last one.
aDayHasPassed(last) == last = 0 \/ now - last >= MsPerDay

\* No claim yet, or the last claim was on another calendar date.
canClaimInterest(last) == last = 0 \/ DayOf(now) # DayOf(last)

handleInterest(sender) ==
  LET db == getUser(users, sender)
      user == db[sender]
      last == lastInterestClaim(user)
      interestAmount == FloorPerMille(user.bankBalance, 10 + user.prestige)
      newBankBalance == user.bankBalance + interestAmount
  IN  /\ users' =
           IF ~canClaimInterest(last) \/ interestAmount <= 0 THEN db
           ELSE IF newBankBalance > user.bankCapacity
             THEN IF user.bankCapacity - user.bankBalance <= 0 THEN db
                  ELSE updateUser(db, sender, [ bankBalance |-> user.bankCapacity,
                                                lastInterestClaim |-> now ])
           ELSE updateUser(db, sender, [ bankBalance |-> newBankBalance,
                                         lastInterestClaim |-> now ])
      /\ UNCHANGED <<notBank, now, bankVars>>

handleBankUpgrade(sender) ==
  LET db == getUser(users, sender)
      user == db[sender]
      upgradeCost == FloorPerMille(user.bankCapacity, 150)
      newCapacity == FloorPerMille(user.bankCapacity, 1500)
  IN  /\ users' = IF user.balance < upgradeCost THEN db
                    ELSE updateUser(db, sender, [ balance |-> user.balance - upgradeCost,
                                                  bankCapacity |-> newCapacity ])
      /\ UNCHANGED <<notBank, now, bankVars>>

NextBank ==
  \/ nextDay
  \/ \E u \in Savers, t \in BankTokens : handleDeposit(u, t)
  \/ \E task \in BagToSet(bankTasks) : resumeDeposit(task)
  \/ \E u \in Savers, t \in BankTokens : handleWithdraw(u, t)
  \/ \E u \in Savers : handleInterest(u)
  \/ \E u \in Savers : handleBankUpgrade(u)

SpecBank == InitBank /\ [][NextBank]_vars

\* C2: in every reachable state 0 <= bankBalance <= bankCapacity for every
\* user, after any sequence of deposits, withdrawals, interest claims and bank
\* upgrades.
BankWithinCapacity ==
  \A u \in DOMAIN users :
    /\ 0 <= users[u].bankBalance
    /\ users[u].bankBalance <= users[u].bankCapacity

\* A bank that was upgraded and then filled to its new capacity.
BankFullAfterUpgrade ==
  \E u \in DOMAIN users :
    /\ users[u].bankCapacity > Coins(initialBankCapacity)
    /\ users[u].bankBalance = users[u].bankCapacity

\* C15: the write of a deposit that was cut to the remaining capacity is a
\* read-modify-write of the record the store holds when it is made: it takes
\* the amount from that wallet and adds it to that bank balance, so nothing
\* committed since the handler read its user record is overwritten.
DepositWritesOnCurrentRecord ==
  [][\A task \in BagToSet(bankTasks) :
       (resumeDeposit(task) /\ task.amount # 0) =>
         /\ users'[task.user.id].balance = users[task.user.id].balance - task.amount
         /\ users'[task.user.id].bankBalance =
              users[task.user.id].bankBalance + task.amount]_vars

\* C30: a deposit of a, 0 < a <= wallet, moves exactly
\* min(a, bankCapacity - bankBalance) coins from the wallet to the bank, and
\* every deposit and every withdrawal leaves wallet + bank of the user as it
\* was.
DepositClampedBankMovesConserve ==
  [][ /\ \A sender \in Savers, token \in BankTokens :
           (handleDeposit(sender, token) \/ handleWithdraw(sender, token))
             => users'[sender].balance + users'[sender].bankBalance
                  = users[sender].balance + users[sender].bankBalance
      /\ \A sender \in Savers, token \in BankTokens :
           LET user == users[sender]
               parsed == ParseAmount(token, user.balance)
               room == user.bankCapacity - user.bankBalance
           IN  (/\ handleDeposit(sender, token)
                /\ ~parsed.nan
                /\ parsed.val > 0
                /\ parsed.val <= user.balance
                /\ parsed.val <= room)
                 => /\ users'[sender].bankBalance = user.bankBalance + parsed.val
                    /\ users'[sender].balance = user.balance - parsed.val
      /\ \A task \in BagToSet(bankTasks) :
           resumeDeposit(task)
             => /\ users'[task.user.id].balance + users'[task.user.id].bankBalance
                     = users[task.user.id].balance + users[task.user.id].bankBalance
                /\ users[task.user.id] = task.user
                     => /\ users'[task.user.id].bankBalance
                             = task.user.bankBalance + task.amount
                        /\ users'[task.user.id].balance
                             = task.user.balance - task.amount ]_vars

\* ---------------------------------------------------------------- companies
minCompanyInvestment == 5000
minInvestment == 1000
totalShares == 100
\* companyWithdrawalFee, in thousandths.
companyWithdrawalFee == 100

CompanyNames == {"acme"}
NewNames == {"bolt"}
CreateTokens == { [kind |-> "int", val |-> n] : n \in {4000, 5000} }
InvestTokens == { [kind |-> "nan", val |-> 0], [kind |-> "int", val |-> 4000] }
WithdrawTokens ==
  { [kind |-> "all", val |-> 0], [kind |-> "int", val |-> 2000], [kind |-> "int", val |-> 1993] }
\* Company commands the model carries out.
MaxCompanyOps == 6

\* One more company command is carried out.
CountOp ==
  /\ companyOps < MaxCompanyOps
  /\ companyOps' = companyOps + 1

\* getCompany(name) is defined.
HasCompany(name) == name \in DOMAIN companies

\* db.companies after createCompany (sector and createdAt, only displayed, are
\* left out).  investorKeys is the key order of the investors object, which
\* Object.keys follows.
createCompany(cs, name, owner, initialInvestment) ==
  SetKey(cs, name,
         [ name |-> name, owner |-> owner, value |-> initialInvestment,
           investors |-> SetKey(NoHoldings, owner, initialInvestment),
           investorKeys |-> <<owner>>,
           totalShares |-> totalShares,
           shareDistribution |-> SetKey(NoHoldings, owner, totalShares) ])

updateCompany(cs, name, updates) ==
  IF name \in DOMAIN cs THEN [cs EXCEPT ![name] = Merge(@, updates)] ELSE cs

RECURSIVE Without(_, _)
Without(seq, x) ==
  IF seq = <<>> THEN <<>>
  ELSE IF Head(seq) = x THEN Without(Tail(seq), x)
  ELSE <<Head(seq)>> \o Without(Tail(seq), x)

\* A step of a company handler that changes nothing but the sender's record.
CompanyRejected(db) ==
  /\ users' = db
  /\ UNCHANGED companyVars

handleCreateCompany(sender, token, companyName) ==
  LET db == getUser(users, sender)
      user == db[sender]
      parsed == ParseAmount(token, 0)
      amount == parsed.val
  IN  /\ UNCHANGED notCompany
      /\ IF \/ parsed.nan \/ amount <= 0
            \/ amount < Coins(minCompanyInvestment)
            \/ amount > user.balance
            \/ HasCompany(companyName)
           THEN CompanyRejected(db)
           ELSE /\ companies' = createCompany(companies, companyName, sender, amount)
                /\ users' = updateUser(db, sender,
                     [ balance |-> user.balance - amount,
                       investedCompanies |-> SetKey(user.investedCompanies, companyName, amount),
                       shares |-> SetKey(user.shares, companyName, 100) ])
                /\ UNCHANGED closeTasks
                /\ CountOp

\* Math.floor((amount / value) * company.totalShares)
sharesFor(amount, value, company) == (amount * company.totalShares) \div value

\* An investment that records the investor and forgets the company's value.
investWithoutValue(company, sender, amount) ==
  [ investors |-> SetKey(company.investors, sender, Get(company.investors, sender) + amount),
    investorKeys |-> IF sender \in DOMAIN company.investors THEN company.investorKeys
                     ELSE Append(company.investorKeys, sender),
    shareDistribution |-> company.shareDistribution ]

\* The company fields an investment of `amount` by `sender` writes.
investUpdates(company, sender, amount) ==
  LET newInvestment == Get(company.investors, sender) + amount
      newCompanyValue == company.value + amount
      sharesToGive == sharesFor(amount, newCompanyValue, company)
  IN  [ value |-> newCompanyValue,
        investors |-> SetKey(company.investors, sender, newInvestment),
        investorKeys |-> IF sender \in DOMAIN company.investors THEN company.investorKeys
                         ELSE Append(company.investorKeys, sender),
        shareDistribution |-> SetKey(company.shareDistribution, sender,
                                Get(company.shareDistribution, sender) + sharesToGive) ]

handleCompanyInvest(sender, companyName, token) ==
  LET db == getUser(users, sender)
      user == db[sender]
      parsed == ParseAmount(token, 0)
      amount == parsed.val
  IN  /\ UNCHANGED notCompany
      /\ IF \/ parsed.nan \/ amount <= 0
            \/ ~HasCompany(companyName)
            \/ amount > user.balance
            \/ amount < Coins(minInvestment)
           THEN CompanyRejected(db)
           ELSE LET company == companies[companyName]
                    updates == investUpdates(company, sender, amount)
                    sharesToGive == sharesFor(amount, company.value + amount, company)
                IN  /\ companies' = updateCompany(companies, companyName, updates)
                    /\ users' = updateUser(db, sender,
                         [ balance |-> user.balance - amount,
                           investedCompanies |->
                             SetKey(user.investedCompanies, companyName, updates.investors[sender]),
                           shares |-> SetKey(user.shares, companyName,
                                             Get(user.shares, companyName) + sharesToGive) ])
                    /\ UNCHANGED closeTasks
                /\ CountOp

\* x only if x > 0 (a key is deleted when its value is not positive).
Max0(x) == IF x > 0 THEN x ELSE 0

\* A check that lets the owner withdraw everything.
ownerMayLeave(sender, company, amount) == FALSE

\* sender === company.owner && amount === company.investors[sender]
ownerWithdrawsAll(sender, company, amount) ==
  sender = company.owner /\ amount = Get(company.investors, sender)

handleCompanyWithdraw(sender, companyName, token) ==
  LET db == getUser(users, sender)
      user == db[sender]
  IN  /\ UNCHANGED notCompany
      /\ IF ~HasCompany(companyName) THEN CompanyRejected(db)
         ELSE
         LET company == companies[companyName]
             invested == Get(company.investors, sender)
             parsed == ParseAmount(token, invested)
             amount == parsed.val
             withdrawalFee == FloorPerMille(amount, companyWithdrawalFee)
             withdrawalAmount == amount - withdrawalFee
             sharesToRemove == sharesFor(amount, company.value, company)
             newInvestment == invested - amount
             investors == IF newInvestment <= 0 THEN DelKey(company.investors, sender)
                          ELSE SetKey(company.investors, sender, newInvestment)
             shareDistribution ==
               SetKey(company.shareDistribution, sender,
                      Max0(Get(company.shareDistribution, sender) - sharesToRemove))
         IN  IF \/ invested = 0
                \/ parsed.nan \/ amount <= 0
                \/ amount > invested
                \/ ownerWithdrawsAll(sender, company, amount)
               THEN CompanyRejected(db)
               ELSE /\ companies' = updateCompany(companies, companyName,
                         [ value |-> company.value - amount,
                           investors |-> investors,
                           investorKeys |-> IF newInvestment <= 0
                                              THEN Without(company.investorKeys, sender)
                                              ELSE company.investorKeys,
                           shareDistribution |-> shareDistribution ])
                    /\ users' = updateUser(db, sender,
                         [ balance |-> user.balance + withdrawalAmount,
                           investedCompanies |->
                             IF newInvestment <= 0 THEN DelKey(user.investedCompanies, companyName)
                             ELSE SetKey(user.investedCompanies, companyName, newInvestment),
                           shares |->
                             IF shareDistribution[sender] <= 0 THEN DelKey(user.shares, companyName)
                             ELSE SetKey(user.shares, companyName, shareDistribution[sender]) ])
                    /\ UNCHANGED closeTasks
                /\ CountOp

\* A kick at the fee of a withdrawal.
singleFee(investmentAmount) == FloorPerMille(investmentAmount, companyWithdrawalFee)

\* kickFee: Math.floor(investmentAmount * (config.companyWithdrawalFee * 2))
kickFee(investmentAmount) == FloorPerMille(investmentAmount, companyWithdrawalFee * 2)

handleCompanyKick(sender, companyName, kickUser) ==
  LET db == getUser(users, sender)
  IN  /\ UNCHANGED notCompany
      /\ IF ~HasCompany(companyName) THEN CompanyRejected(db)
         ELSE
         LET company == companies[companyName]
             investmentAmount == Get(company.investors, kickUser)
             withdrawalAmount == investmentAmount - kickFee(investmentAmount)
             db1 == getUser(db, kickUser)
             kickedUser == db1[kickUser]
         IN  IF \/ company.owner # sender
                \/ investmentAmount = 0
                \/ kickUser = sender
               THEN CompanyRejected(db)
               ELSE /\ companies' = updateCompany(companies, companyName,
                         [ value |-> company.value - investmentAmount,
                           investors |-> DelKey(company.investors, kickUser),
                           investorKeys |-> Without(company.investorKeys, kickUser),
                           shareDistribution |-> DelKey(company.shareDistribution, kickUser) ])
                    /\ users' = updateUser(db1, kickUser,
                         [ balance |-> kickedUser.balance + withdrawalAmount,
                           investedCompanies |-> DelKey(kickedUser.investedCompanies, companyName),
                           shares |-> DelKey(kickedUser.shares, companyName) ])
                    /\ UNCHANGED closeTasks
                /\ CountOp

\* map with the entry of oldName, if it is there and not zero, moved to newName.
MoveKey(map, oldName, newName) ==
  IF Get(map, oldName) # 0 THEN DelKey(SetKey(map, newName, map[oldName]), oldName)
  ELSE map

\* The forEach of handleCompanyRename over the investors in `keys`.
RECURSIVE renameInvestors(_, _, _, _)
renameInvestors(db, keys, oldName, newName) ==
  IF keys = <<>> THEN db
  ELSE LET db1 == getUser(db, Head(keys))
           investor == db1[Head(keys)]
       IN  renameInvestors(
             updateUser(db1, Head(keys),
               [ investedCompanies |-> MoveKey(investor.investedCompanies, oldName, newName),
                 shares |-> MoveKey(investor.shares, oldName, newName) ]),
             Tail(keys), oldName, newName)

handleCompanyRename(sender, oldName, newName) ==
  LET db == getUser(users, sender)
  IN  /\ UNCHANGED notCompany
      /\ IF \/ ~HasCompany(oldName)
            \/ companies[oldName].owner # sender
            \/ HasCompany(newName)
           THEN CompanyRejected(db)
           ELSE /\ companies' = updateCompany(companies, oldName, [name |-> newName])
                /\ users' = renameInvestors(db, companies[oldName].investorKeys, oldName, newName)
                /\ UNCHANGED closeTasks
                /\ CountOp

\* The refund loop of handleCompanyClose over the investors in `keys`, from the
\* company record the handler read, up to its next await: the notice to an
\* investor other than the owner.
RECURSIVE closeRun(_, _, _, _, _)
closeRun(db, company, companyName, sender, keys) ==
  IF keys = <<>> THEN [db |-> db, rest |-> <<>>, waiting |-> FALSE]
  ELSE LET investorId == Head(keys)
           db1 == getUser(db, investorId)
           investor == db1[investorId]
           investmentAmount == company.investors[investorId]
           withdrawalFee == FloorPerMille(investmentAmount, companyWithdrawalFee)
           withdrawalAmount == investmentAmount - withdrawalFee
           db2 == updateUser(db1, investorId,
                    [ balance |-> investor.balance + withdrawalAmount,
                      investedCompanies |-> DelKey(investor.investedCompanies, companyName),
                      shares |-> DelKey(investor.shares, companyName) ])
       IN  IF investorId # sender
             THEN [db |-> db2, rest |-> Tail(keys), waiting |-> TRUE]
             ELSE closeRun(db2, company, companyName, sender, Tail(keys))

\* The loop has run to its next await, or to its end and the closing update.
closeStep(run, company, companyName, sender, tasks) ==
  /\ users' = run.db
  /\ IF run.waiting
       THEN /\ closeTasks' = tasks (+) SetToBag({[ company |-> company, name |-> companyName,
                                                    sender |-> sender, rest |-> run.rest ]})
            /\ UNCHANGED companies
       ELSE /\ closeTasks' = tasks
            /\ companies' = updateCompany(companies, companyName,
                                          [closed |-> TRUE, closedAt |-> now])

handleCompanyClose(sender, companyName) ==
  LET db == getUser(users, sender)
  IN  /\ UNCHANGED notCompany
      /\ IF ~HasCompany(companyName) \/ companies[companyName].owner # sender
           THEN CompanyRejected(db)
           ELSE LET company == companies[companyName]
                IN  /\ CountOp
                    /\ closeStep(closeRun(db, company, companyName, sender, company.investorKeys),
                                 company, companyName, sender, closeTasks)

resumeClose(task) ==
  /\ closeStep(closeRun(users, task.company, task.name, task.sender, task.rest),
               task.company, task.name, task.sender, closeTasks (-) SetToBag({task}))
  /\ UNCHANGED <<companyOps, notCompany>>

Founders == {"u1", "u2"}
InitCompany == users = Granted(Founders) /\ InitRest

NextCompany ==
  \/ \E u \in Founders, t \in CreateTokens, c \in CompanyNames : handleCreateCompany(u, t, c)
  \/ \E u \in Founders, c \in CompanyNames, t \in InvestTokens : handleCompanyInvest(u, c, t)
  \/ \E u \in Founders, c \in CompanyNames, t \in WithdrawTokens :
        handleCompanyWithdraw(u, c, t)
  \/ \E u \in Founders, c \in CompanyNames, k \in Founders : handleCompanyKick(u, c, k)
  \/ \E u \in Founders, c \in CompanyNames, n \in NewNames : handleCompanyRename(u, c, n)
  \/ \E u \in Founders, c \in CompanyNames : handleCompanyClose(u, c)
  \/ \E task \in BagToSet(closeTasks) : resumeClose(task)

SpecCompany == InitCompany /\ [][NextCompany]_vars

\* C3: for every company, after every create, invest, withdraw, kick, rename
\* and close, company.value equals the sum of the amounts in company.investors.
ValueIsSumOfInvestors ==
  \A c \in DOMAIN companies : companies[c].value = SumValues(companies[c].investors)

\* A company with two investors that was renamed and closed.
RenamedClosedCompany ==
  \E c \in DOMAIN companies :
    /\ "closed" \in DOMAIN companies[c]
    /\ companies[c].name # c
    /\ Cardinality(DOMAIN companies[c].investors) = 2

\* C4: for every company, after any sequence of create, invest, withdraw and
\* kick, the share counts of its shareDistribution sum to at most totalShares.
SharesWithinTotal ==
  \A c \in DOMAIN companies :
    SumValues(companies[c].shareDistribution) <= companies[c].totalShares

\* C22: a withdrawal of amount a that goes through adds exactly
\* a - floor(a * companyWithdrawalFee) to the investor's wallet and takes a off
\* company.value; a kick of an investor holding i adds exactly
\* i - floor(i * 2 * companyWithdrawalFee) to the wallet of the one kicked and
\* takes i off company.value; in both no other wallet changes.
ExitPaysAmountLessFee ==
  [][ /\ \A sender \in Founders, c \in CompanyNames, t \in WithdrawTokens :
          (handleCompanyWithdraw(sender, c, t) /\ companies' # companies) =>
            LET a == IF t.kind = "all" THEN companies[c].investors[sender]
                     ELSE t.val * Unit
                fee == ((a * companyWithdrawalFee) \div (1000 * Unit)) * Unit
            IN  /\ users'[sender].balance = users[sender].balance + a - fee
                /\ companies'[c].value = companies[c].value - a
                /\ \A u \in DOMAIN users \ {sender} : users'[u].balance = users[u].balance
      /\ \A owner \in Founders, c \in CompanyNames, k \in Founders :
          (handleCompanyKick(owner, c, k) /\ companies' # companies) =>
            LET i == companies[c].investors[k]
                kfee == ((i * 2 * companyWithdrawalFee) \div (1000 * Unit)) * Unit
            IN  /\ k # companies[c].owner
                /\ users'[k].balance = users[k].balance + i - kfee
                /\ companies'[c].value = companies[c].value - i
                /\ \A u \in DOMAIN users \ {k} : users'[u].balance = users[u].balance]_vars

\* An investor who put in 4000 has withdrawn 1993 (fee floor(199.3) = 199) and
\* has then been kicked with 2007 left (fee floor(401.4) = 401).
WithdrawnThenKicked ==
  \E u \in DOMAIN users : \E c \in DOMAIN companies :
    /\ u \notin DOMAIN companies[c].investors
    /\ users[u].balance = Coins(GrantedWallet - 4000 + (1993 - 199) + (2007 - 401))

\* Three investors, so that the refund loop of a close waits on the notice to
\* one investor while another is still to be refunded.
Investors == {"u1", "u2", "u3"}
InitClose == users = Granted(Investors) /\ InitRest

NextClose ==
  \/ \E c \in CompanyNames :
        handleCreateCompany("u1", [kind |-> "int", val |-> minCompanyInvestment], c)
  \/ \E u \in Investors, c \in CompanyNames :
        handleCompanyInvest(u, c, [kind |-> "int", val |-> 4000])
  \/ \E u \in Investors, c \in CompanyNames, t \in WithdrawTokens :
        handleCompanyWithdraw(u, c, t)
  \/ \E u \in Investors, c \in CompanyNames : handleCompanyClose(u, c)
  \/ \E task \in BagToSet(closeTasks) : resumeClose(task)

SpecClose == InitClose /\ [][NextClose]_vars

\* What a close owes the investor u of the company c: the amount invested,
\* less the withdrawal fee on it.
RefundOwed(c, u) ==
  LET invested == Get(companies[c].investors, u)
  IN  invested - ((invested * companyWithdrawalFee) \div (1000 * Unit)) * Unit

\* C23: only the owner's close goes through; every wallet a close writes, in
\* its first run or after a notice, gains exactly the amount its owner has
\* invested in the company less floor(invested * companyWithdrawalFee), and
\* the company leaves that investor's invested-amount and share maps; when
\* the loop is through the company is still in the store, marked closed.
CloseRefundsInvested ==
  [][ /\ \A sender \in Investors, c \in CompanyNames :
           (handleCompanyClose(sender, c) /\ companyOps' # companyOps) =>
             /\ sender = companies[c].owner
             /\ \A u \in DOMAIN users :
                  users'[u] # users[u] =>
                    /\ users'[u].balance = users[u].balance + RefundOwed(c, u)
                    /\ c \notin DOMAIN users'[u].investedCompanies
                    /\ c \notin DOMAIN users'[u].shares
             /\ closeTasks' = closeTasks =>
                  /\ \A u \in DOMAIN companies[c].investors : users'[u] # users[u]
                  /\ c \in DOMAIN companies' /\ companies'[c].closed
      /\ \A task \in BagToSet(closeTasks) :
           resumeClose(task) =>
             /\ \A u \in DOMAIN users :
                  users'[u] # users[u] =>
                    /\ users'[u].balance = users[u].balance + RefundOwed(task.name, u)
                    /\ task.name \notin DOMAIN users'[u].investedCompanies
                    /\ task.name \notin DOMAIN users'[u].shares
             /\ BagToSet(closeTasks') = {} =>
                  /\ task.name \in DOMAIN companies' /\ companies'[task.name].closed ]_vars

\* C24: after a rename from oldName to newName that goes through, getCompany
\* finds the company under newName and nothing under oldName, and every
\* investor's invested-amount entry and share entry of the company are under
\* newName with the values they had under oldName.
RenameMovesCompanyAndMaps ==
  [][\A sender \in Founders, oldName \in CompanyNames, newName \in NewNames :
       (handleCompanyRename(sender, oldName, newName) /\ companyOps' # companyOps) =>
         /\ HasCompany(newName)'
         /\ ~HasCompany(oldName)'
         /\ \A u \in DOMAIN companies[oldName].investors :
              /\ Get(users'[u].investedCompanies, newName)
                   = Get(users[u].investedCompanies, oldName)
              /\ Get(users'[u].shares, newName) = Get(users[u].shares, oldName)
              /\ oldName \notin DOMAIN users'[u].investedCompanies
              /\ oldName \notin DOMAIN users'[u].shares]_vars

\* C19: in every reachable state the owner of every company is one of its
\* investors, with an invested amount > 0.
OwnerStaysInvested ==
  \A c \in DOMAIN companies :
    /\ companies[c].owner \in DOMAIN companies[c].investors
    /\ companies[c].investors[companies[c].owner] > 0

\* An owner has withdrawn down to an amount smaller than the one withdrawal
\* the model asks for, so that only a withdrawal of everything is left, while
\* another investor has been kicked or has left.
OwnerDownToTheLast ==
  \E c \in DOMAIN companies :
    /\ companies[c].investors[companies[c].owner] < Coins(2000)
    /\ DOMAIN companies[c].investors = {companies[c].owner}
    /\ \E u \in DOMAIN users : u # companies[c].owner /\ users[u].balance < Coins(GrantedWallet)

\* marketFee, in thousandths.
marketFee == 50

Traders == {"u1", "u2"}
SellQuantities == {20, 60}
BuyQuantities == {7, 20, 40, 100}
Prices == {10}
\* Math.floor(Math.random() * 1000), as far as the model draws it.
IdNoise == {0, 1}
\* Sell listings the model takes.
MaxListings == 2

\* db.market.orders after addMarketOrder(order) with the random part `noise`.
addMarketOrder(book, order, noise) ==
  Append(book, [order EXCEPT !.id = now + noise])

\* The index of the first order with this id, 0 when there is none.
FindIndex(book, orderId) ==
  IF \E i \in 1..Len(book) : book[i].id = orderId
    THEN CHOOSE i \in 1..Len(book) :
           book[i].id = orderId /\ \A j \in 1..(i - 1) : book[j].id # orderId
    ELSE 0

\* A removal that leaves the book as it is.
keepMarketOrder(book, orderId) == book

removeMarketOrder(book, orderId) ==
  LET index == FindIndex(book, orderId)
  IN  IF index = 0 THEN book
      ELSE SubSeq(book, 1, index - 1) \o SubSeq(book, index + 1, Len(book))

handleSellShares(sender, companyName, quantity, price, noise) ==
  LET db == getUser(users, sender)
      user == db[sender]
      userShares == Get(user.shares, companyName)
      order == [ id |-> 0, seller |-> sender, company |-> companyName,
                 quantity |-> quantity, price |-> price, listing |-> Len(listings) + 1 ]
      left == userShares - quantity
  IN  /\ UNCHANGED notMarket
      /\ IF quantity <= 0 \/ price <= 0 \/ ~HasCompany(companyName) \/ userShares < quantity
           THEN users' = db /\ UNCHANGED marketVars
           ELSE /\ Len(listings) < MaxListings
                /\ orders' = addMarketOrder(orders, order, noise)
                /\ listings' = Append(listings, [ listed |-> quantity, filled |-> 0,
                                                   returned |-> 0, buys |-> 0 ])
                /\ users' = updateUser(db, sender,
                     [shares |-> IF left = 0 THEN DelKey(user.shares, companyName)
                                 ELSE SetKey(user.shares, companyName, left)])

\* A buy that takes any quantity, whatever the order still holds.
anyQuantity(quantity, order) == TRUE

\* The order holds the quantity asked for.
quantityAvailable(quantity, order) == quantity <= order.quantity

\* Proceeds with no fee taken off.
sellerGetsAll(totalCost) == totalCost

\* sellerAmount: totalCost - Math.floor(totalCost * config.marketFee)
sellerProceeds(totalCost) == totalCost - FloorPerMille(totalCost, marketFee)

handleBuyShares(sender, orderId, quantity, noise) ==
  LET db == getUser(users, sender)
      user == db[sender]
      index == FindIndex(orders, orderId)
  IN  /\ UNCHANGED notMarket
      /\ IF quantity <= 0 \/ index = 0 THEN users' = db /\ UNCHANGED marketVars
         ELSE
         LET order == orders[index]
             totalCost == Coins(order.price) * quantity
             sellerAmount == sellerProceeds(totalCost)
             db1 == updateUser(db, sender,
                      [ balance |-> user.balance - totalCost,
                        shares |-> SetKey(user.shares, order.company,
                                          Get(user.shares, order.company) + quantity) ])
             db2 == getUser(db1, order.seller)
             seller == db2[order.seller]
             removed == removeMarketOrder(orders, orderId)
         IN  IF \/ order.seller = sender
                \/ ~quantityAvailable(quantity, order)
                \/ totalCost > user.balance
                \/ ~HasCompany(order.company)
               THEN users' = db /\ UNCHANGED marketVars
               ELSE /\ users' = updateUser(db2, order.seller,
                                            [balance |-> seller.balance + sellerAmount])
                    /\ orders' = IF quantity = order.quantity THEN removed
                                 ELSE addMarketOrder(removed,
                                        [order EXCEPT !.quantity = order.quantity - quantity],
                                        noise)
                    /\ listings' = [listings EXCEPT ![order.listing] =
                                      [@ EXCEPT !.filled = @ + quantity, !.buys = @ + 1]]

handleCancelOrder(sender, orderId) ==
  LET db == getUser(users, sender)
      index == FindIndex(orders, orderId)
  IN  /\ UNCHANGED notMarket
      /\ IF index = 0 \/ orders[index].seller # sender
           THEN users' = db /\ UNCHANGED marketVars
           ELSE LET order == orders[index]
                    user == db[sender]
                IN  /\ orders' = removeMarketOrder(orders, orderId)
                    /\ users' = updateUser(db, sender,
                         [shares |-> SetKey(user.shares, order.company,
                                            Get(user.shares, order.company) + order.quantity)])
                    /\ listings' = [listings EXCEPT ![order.listing].returned =
                                      @ + order.quantity]

\* The ids a command may name: those in the book, those addMarketOrder may
\* have given to an order no longer in it, and one no order ever had.
KnownIds ==
  {orders[i].id : i \in 1..Len(orders)} \cup {now + r : r \in IdNoise} \cup {0}

NextMarket ==
  \/ \E u \in Traders, c \in CompanyNames :
        /\ handleCreateCompany(u, [kind |-> "int", val |-> minCompanyInvestment], c)
        /\ UNCHANGED marketVars
  \/ \E u \in Traders, c \in CompanyNames, q \in SellQuantities, p \in Prices, r \in IdNoise :
        handleSellShares(u, c, q, p, r)
  \/ \E u \in Traders, id \in KnownIds, q \in BuyQuantities, r \in IdNoise :
        handleBuyShares(u, id, q, r)
  \/ \E u \in Traders, id \in KnownIds : handleCancelOrder(u, id)

SpecMarket == InitCompany /\ [][NextMarket]_vars

\* The orders of the book that stem from listing l.
OrdersOf(l) == {i \in 1..Len(orders) : orders[i].listing = l}

\* C5: every order of the book has quantity > 0; whatever buys took from a
\* listing came out of what its order still held, a filled order is gone from
\* the book, and no listing is filled beyond the quantity listed.
BookIsSound ==
  /\ \A i \in 1..Len(orders) : orders[i].quantity > 0
  /\ \A l \in 1..Len(listings) :
       /\ listings[l].filled <= listings[l].listed
       /\ Cardinality(OrdersOf(l)) <= 1
       /\ \A i \in OrdersOf(l) :
            orders[i].quantity = listings[l].listed - listings[l].filled
       /\ OrdersOf(l) = {} =>
            listings[l].filled + listings[l].returned = listings[l].listed

\* A listing filled by two buys, the second taking all that was left.
ListingFilledInTwoBuys ==
  \E l \in 1..Len(listings) :
    /\ listings[l].buys = 2
    /\ listings[l].filled = listings[l].listed
    /\ OrdersOf(l) = {}

\* C20: a buy of q shares that goes through, on an order of unit price p,
\* takes exactly p*q from the buyer's wallet, adds exactly
\* p*q - floor(p*q * marketFee) to the seller's wallet and q shares of the
\* order's company to the buyer's shares, and leaves every other wallet as it
\* was, so that the fee goes to no one.
BuyMovesCostLessFee ==
  [][\A sender \in Traders, orderId \in KnownIds, q \in BuyQuantities, noise \in IdNoise :
       (handleBuyShares(sender, orderId, q, noise) /\ listings' # listings) =>
         LET order == orders[FindIndex(orders, orderId)]
             cost == Coins(order.price * q)
             fee == ((order.price * q * marketFee) \div 1000) * Unit
         IN  /\ users'[sender].balance = users[sender].balance - cost
             /\ users'[order.seller].balance = users[order.seller].balance + cost - fee
             /\ Get(users'[sender].shares, order.company)
                  = Get(users[sender].shares, order.company) + q
             /\ \A u \in DOMAIN users \ {sender, order.seller} :
                  users'[u].balance = users[u].balance]_vars

\* A buy has gone through whose fee was rounded down: 7 shares at 10 coins
\* (fee floor(3.5) = 3) have reached a buyer.
OddLotBought ==
  \E l \in 1..Len(listings) : listings[l].buys > 0 /\ listings[l].filled % 2 = 1

\* C21: a sell order for q shares that is posted takes q from the seller's
\* shares of the company at once; a cancel that goes through gives the seller
\* back exactly what the order had not sold, changes no wallet and takes the
\* order out of the book; a cancel of an id the book does not hold changes
\* nothing; so no listing is ever refunded twice.
SellEscrowsCancelReturns ==
  /\ [](\A l \in 1..Len(listings) :
          listings[l].returned \in {0, listings[l].listed - listings[l].filled})
  /\ [][ /\ \A sender \in Traders, c \in CompanyNames, q \in SellQuantities,
             p \in Prices, r \in IdNoise :
             (handleSellShares(sender, c, q, p, r) /\ listings' # listings) =>
               /\ Get(users'[sender].shares, c) = Get(users[sender].shares, c) - q
               /\ \A u \in DOMAIN users : users'[u].balance = users[u].balance
         /\ \A sender \in Traders, orderId \in KnownIds :
             handleCancelOrder(sender, orderId) =>
               LET index == FindIndex(orders, orderId)
               IN  IF index = 0 THEN UNCHANGED <<users, marketVars>>
                   ELSE LET order == orders[index]
                            l == order.listing
                        IN  listings' # listings =>
                              /\ order.seller = sender
                              /\ Get(users'[sender].shares, order.company)
                                   = Get(users[sender].shares, order.company)
                                     + listings[l].listed - listings[l].filled
                              /\ \A u \in DOMAIN users :
                                   /\ users'[u].balance = users[u].balance
                                   /\ u # sender => users'[u].shares = users[u].shares
                              /\ Len(orders') = Len(orders) - 1
                              /\ \A i \in 1..Len(orders') : orders'[i].listing # l]_vars

\* An order partly sold has been cancelled, and its id is no longer in the
\* book.
PartlySoldCancelled ==
  \E l \in 1..Len(listings) :
    /\ listings[l].filled > 0
    /\ listings[l].returned > 0
    /\ orders = <<>>

\* C18: no two orders in the market book share an id, whatever the clock
\* value and the random draw when each was added.
OrderIdsUnique ==
  \A i \in 1..Len(orders) : \A j \in 1..Len(orders) :
    i # j => orders[i].id # orders[j].id

\* ---------------------------------------------------------------------- pvp
Duelists == {"u1", "u2"}
StakeTokens == { [kind |-> "int", val |-> n] : n \in {5, 1000} }
\* Half the challenge timeout, in milliseconds: the step of the clock.
HalfTimeout == (challengeTimeout * 1000) \div 2
\* Clock steps the model takes.
MaxHalfSteps == 3
\* Challenges the model creates.
MaxChallenges == 4

\* Time passes.
passTime ==
  /\ now < MsPerDay + MaxHalfSteps * HalfTimeout
  /\ now' = now + HalfTimeout
  /\ UNCHANGED <<users, notPvp, pvpVars>>

\* db.pvp.challenges after createChallenge; a challenge with the same id is
\* replaced.
createChallenge(chs, challengerId, opponentId, amount) ==
  LET challengeId == <<challengerId, opponentId, now>>
  IN  SetKey(chs, challengeId,
             [ id |-> challengeId, challenger |-> challengerId, opponent |-> opponentId,
               amount |-> amount, status |-> "pending", createdAt |-> now,
               expiresAt |-> now + challengeTimeout * 1000 ])

updateChallenge(chs, challengeId, updates) ==
  IF challengeId \in DOMAIN chs THEN [chs EXCEPT ![challengeId] = Merge(@, updates)] ELSE chs

\* A sweep that marks nothing.
sweepNothing(chs) == chs

cleanupExpiredChallenges(chs) ==
  [id \in DOMAIN chs |->
     IF chs[id].status = "pending" /\ chs[id].expiresAt < now
       THEN [chs[id] EXCEPT !.status = "expired"]
       ELSE chs[id]]

getPendingChallengesForUser(chs, userId) ==
  {id \in DOMAIN chs : chs[id].status = "pending" /\ chs[id].opponent = userId}

\* The first of the pending challenges sorted by createdAt, latest first.  (All
\* pending challenges of one opponent come from the other duelist, so no two
\* have the same createdAt.)
mostRecent(chs, ids) ==
  CHOOSE id \in ids : \A other \in ids : chs[other].createdAt <= chs[id].createdAt

\* The cooldown check of handleChallenge and handleRematch: whether the command
\* is refused and the store after the reset of a stale hour window.
cooldown(db, user) ==
  IF user.lastChallengeTime > now - msPerHour
    THEN [refused |-> user.challengesMade >= maxChallengesPerHour, db |-> db]
    ELSE [refused |-> FALSE,
          db |-> updateUser(db, user.id, [challengesMade |-> 0, lastChallengeTime |-> now])]

\* A creation that takes the stake from the challenger's wallet.
issueWithEscrow(db, user, sender, opponent, betAmount, chs) ==
  /\ challengeCount < MaxChallenges
  /\ challengeCount' = challengeCount + 1
  /\ challenges' = createChallenge(chs, sender, opponent, betAmount)
  /\ users' = updateUser(db, sender, [ balance |-> user.balance - betAmount,
                                        challengesMade |-> user.challengesMade + 1,
                                        lastChallengeTime |-> now ])

\* createChallenge and the update of the challenger's counters.
issueChallenge(db, user, sender, opponent, betAmount, chs) ==
  /\ challengeCount < MaxChallenges
  /\ challengeCount' = challengeCount + 1
  /\ challenges' = createChallenge(chs, sender, opponent, betAmount)
  /\ users' = updateUser(db, sender, [ challengesMade |-> user.challengesMade + 1,
                                        lastChallengeTime |-> now ])

handleChallenge(sender, opponent, token) ==
  LET db == getUser(users, sender)
      user == db[sender]
      chs == cleanupExpiredChallenges(challenges)
      cool == cooldown(db, user)
      db1 == getUser(cool.db, opponent)
      opponentUser == db1[opponent]
      parsed == ParseAmount(token, 0)
      betAmount == parsed.val
  IN  /\ UNCHANGED <<now, notPvp>>
      /\ IF cool.refused
           THEN users' = db /\ challenges' = chs /\ UNCHANGED challengeCount
         ELSE IF opponent = sender
           THEN users' = cool.db /\ challenges' = chs /\ UNCHANGED challengeCount
         ELSE IF \/ parsed.nan \/ betAmount <= 0
                 \/ betAmount > user.balance
                 \/ betAmount < Coins(minBet)
                 \/ betAmount > Coins(maxBet)
                 \/ betAmount > opponentUser.balance
           THEN users' = db1 /\ challenges' = chs /\ UNCHANGED challengeCount
         ELSE issueChallenge(db1, user, sender, opponent, betAmount, chs)

Min(a, b) == IF a < b THEN a ELSE b
Max(a, b) == IF a > b THEN a ELSE b

handleRematch(sender) ==
  LET db == getUser(users, sender)
      user == db[sender]
      chs == cleanupExpiredChallenges(challenges)
      cool == cooldown(db, user)
      opponent == user.lastOpponent
      db1 == getUser(cool.db, opponent)
      opponentUser == db1[opponent]
      betAmount == Min(Min(Max(Coins(rematchMinBet), FloorPerMille(user.balance, 100)),
                           user.balance),
                       Min(opponentUser.balance, Coins(maxBet)))
  IN  /\ UNCHANGED <<now, notPvp>>
      /\ IF user.lastOpponent = "none" \/ cool.refused
           THEN users' = db /\ challenges' = chs /\ UNCHANGED challengeCount
           ELSE issueChallenge(db1, user, sender, opponent, betAmount, chs)

\* A resolution that credits the winner with winAmount = betAmount * 2.
resolveWithWinAmount(db, winner, loser, winnerBalance, loserBalance, betAmount) ==
  LET db1 == updateUser(db, winner.id,
               [ balance |-> winnerBalance + betAmount * 2,
                 gamesPlayed |-> winner.gamesPlayed + 1,
                 gamesWon |-> winner.gamesWon + 1,
                 lastOpponent |-> loser.id ])
      db2 == updateUser(db1, loser.id,
               [ balance |-> loserBalance - betAmount,
                 gamesPlayed |-> loser.gamesPlayed + 1,
                 lastOpponent |-> winner.id ])
  IN  addXP(addXP(db2, winner.id, xpPerWin + xpPerBet), loser.id, xpPerLoss + xpPerBet)

\* The two balance updates and the two addXP calls of an accepted challenge.
resolveChallenge(db, winner, loser, winnerBalance, loserBalance, betAmount) ==
  LET db1 == updateUser(db, winner.id,
               [ balance |-> winnerBalance + betAmount,
                 gamesPlayed |-> winner.gamesPlayed + 1,
                 gamesWon |-> winner.gamesWon + 1,
                 lastOpponent |-> loser.id ])
      db2 == updateUser(db1, loser.id,
               [ balance |-> loserBalance - betAmount,
                 gamesPlayed |-> loser.gamesPlayed + 1,
                 lastOpponent |-> winner.id ])
  IN  addXP(addXP(db2, winner.id, xpPerWin + xpPerBet), loser.id, xpPerLoss + xpPerBet)

handleAccept(sender, result) ==
  LET db == getUser(users, sender)
      user == db[sender]
      chs == cleanupExpiredChallenges(challenges)
      pendingChallenges == getPendingChallengesForUser(chs, sender)
  IN  /\ UNCHANGED <<now, notPvp, challengeCount>>
      /\ IF pendingChallenges = {}
           THEN users' = db /\ challenges' = chs
         ELSE
         LET challenge == chs[mostRecent(chs, pendingChallenges)]
             db1 == getUser(db, challenge.challenger)
             challenger == db1[challenge.challenger]
         IN  IF challenge.amount > user.balance \/ challenge.amount > challenger.balance
               THEN /\ users' = db1
                    /\ challenges' = updateChallenge(chs, challenge.id, [status |-> "cancelled"])
               ELSE /\ challenges' = updateChallenge(chs, challenge.id, [status |-> "accepted"])
                    /\ users' =
                         IF result = "heads"
                           THEN resolveChallenge(db1, challenger, user, challenger.balance,
                                                 user.balance, challenge.amount)
                           ELSE resolveChallenge(db1, user, challenger, user.balance,
                                                 challenger.balance, challenge.amount)

handleDecline(sender) ==
  LET db == getUser(users, sender)
      chs == cleanupExpiredChallenges(challenges)
      pendingChallenges == getPendingChallengesForUser(chs, sender)
  IN  /\ UNCHANGED <<now, notPvp, challengeCount>>
      /\ users' = db
      /\ challenges' = IF pendingChallenges = {} THEN chs
                       ELSE updateChallenge(chs, mostRecent(chs, pendingChallenges),
                                            [status |-> "declined"])

NextPvp ==
  \/ passTime
  \/ \E u \in Duelists, o \in Duelists, t \in StakeTokens : handleChallenge(u, o, t)
  \/ \E u \in Duelists : handleRematch(u)
  \/ \E u \in Duelists, r \in CoinSides : handleAccept(u, r)
  \/ \E u \in Duelists : handleDecline(u)

SpecPvp == Init /\ [][NextPvp]_vars

\* The challenge is accepted in this step.
Resolves(id) ==
  /\ id \in DOMAIN challenges /\ challenges[id].status = "pending"
  /\ id \in DOMAIN challenges' /\ challenges'[id].status = "accepted"

FundsUnchanged(u) ==
  /\ users'[u].balance = users[u].balance
  /\ users'[u].bankBalance = users[u].bankBalance

\* C6: the status of a challenge changes only from pending to accepted,
\* declined, cancelled or expired, and a challenge once created stays in the
\* store; so no challenge is accepted twice.
StatusOneWay ==
  [][\A id \in DOMAIN challenges :
       /\ id \in DOMAIN challenges'
       /\ challenges'[id].status # challenges[id].status
            => /\ challenges[id].status = "pending"
               /\ challenges'[id].status \in {"accepted", "declined", "cancelled", "expired"}]_vars

AcceptMovesStake ==
  [][\A id \in DOMAIN challenges : Resolves(id) =>
       LET s == challenges[id].amount
           c == challenges[id].challenger
           o == challenges[id].opponent
       IN  /\ \/ /\ users'[c].balance = users[c].balance + s
                  /\ users'[o].balance = users[o].balance - s
              \/ /\ users'[o].balance = users[o].balance + s
                  /\ users'[c].balance = users[c].balance - s
           /\ users'[c].balance + users'[o].balance = users[c].balance + users[o].balance
           /\ \A u \in DOMAIN users \ {c, o} : users'[u].balance = users[u].balance
           /\ \A u \in DOMAIN users : users'[u].bankBalance = users[u].bankBalance]_vars

\* An accepted challenge of a positive stake whose winner holds the loser's
\* stake: the two duelists started with the same wallet.
StakeChangedHands ==
  \E id \in DOMAIN challenges :
    /\ challenges[id].status = "accepted"
    /\ challenges[id].amount > 0
    /\ \E w \in Duelists, l \in Duelists :
         /\ users[w].balance = Coins(startingBalance) + challenges[id].amount
         /\ users[l].balance = Coins(startingBalance) - challenges[id].amount

\* Hours the model lets pass.
MaxHours == 1

\* More than an hour passes.
passHour ==
  /\ now < MsPerDay + MaxHours * (msPerHour + 1)
  /\ now' = now + msPerHour + 1
  /\ UNCHANGED <<users, notPvp, pvpVars>>

NextCooldown ==
  \/ passHour
  \/ \E u \in Duelists, o \in Duelists, t \in StakeTokens : handleChallenge(u, o, t)
  \/ \E u \in Duelists : handleRematch(u)
  \/ \E u \in Duelists, r \in CoinSides : handleAccept(u, r)

SpecCooldown == Init /\ [][NextCooldown]_vars

\* C27: when an identity's last challenge is more than an hour old, the
\* next challenge or rematch it creates leaves its count of challenges at 1
\* (so that maxChallengesPerHour challenges fit into the hour that follows).
CountRestartsAfterAnHour ==
  [][\A u \in Duelists :
       /\ users[u].lastChallengeTime < now - msPerHour
       /\ challengeCount' # challengeCount
       /\ \E id \in DOMAIN challenges' : id[1] = u /\ id[3] = now
       /\ users'[u].lastChallengeTime = now
       => users'[u].challengesMade = 1]_vars

\* ------------------------------------------------------------- registration
\* Usernames the model's identities ask for: three spellings of one name, two
\* other names, a name too short and a name with a character not allowed.
RegisterNames ==
  { <<"N", "e", "o">>, <<"n", "e", "o">>, <<"n", "e", "O">>, <<"t", "r", "i">>,
    <<"m", "_", "1">>, <<"n", "o">>, <<"n", "-", "o">> }

handleRegister(sender, username) ==
  LET db == getUser(users, sender)
      user == db[sender]
      registered == registerUsername(db, usernames, sender, username)
  IN  /\ UNCHANGED notRegister
      /\ IF \/ user.isRegistered
            \/ Len(username) < 3 \/ Len(username) > 15
            \/ ~wellFormed(username)
            \/ ~isUsernameAvailable(usernames, username)
           THEN users' = db /\ UNCHANGED usernames
           ELSE users' = registered.users /\ usernames' = registered.usernames

\* checkUserRegistered: the gate of handleCommand before every command but
\* help, ping, register and maingc.
isUserRegistered(userId) == getUser(users, userId)[userId].isRegistered

\* Registration, and the registered identities moving coins in and out of
\* their banks.
NextRegister ==
  \/ \E u \in Users, name \in RegisterNames : handleRegister(u, name)
  \/ \E u \in Users, t \in BankTokens : isUserRegistered(u) /\ handleDeposit(u, t)
  \/ \E u \in Users, t \in BankTokens : isUserRegistered(u) /\ handleWithdraw(u, t)

InitRegister == users = NoHoldings /\ InitRest

SpecRegister == InitRegister /\ [][NextRegister]_vars

SameIgnoringCase(a, b) ==
  /\ Len(a) = Len(b)
  /\ \A i \in 1..Len(a) : lowerChar(a[i]) = lowerChar(b[i])

\* C16: no two registered identities ever hold usernames that are equal
\* ignoring case, and a registered identity stays registered under the same
\* username whatever command follows (a further register by it, a register
\* of its name by another identity, a bank command).
UsernamesUniqueAndFixed ==
  /\ [](\A a \in DOMAIN users : \A b \in DOMAIN users \ {a} :
          (users[a].isRegistered /\ users[b].isRegistered)
            => ~SameIgnoringCase(users[a].username, users[b].username))
  /\ [][\A u \in DOMAIN users :
          users[u].isRegistered
            => users'[u].isRegistered /\ users'[u].username = users[u].username]_vars

\* Every identity is registered, one of them under a spelling of "neo", and
\* one has moved coins into its bank since.
AllRegisteredOneBanked ==
  /\ \A u \in Users : u \in DOMAIN users /\ users[u].isRegistered
  /\ \E u \in Users : SameIgnoringCase(users[u].username, <<"n", "e", "o">>)
  /\ \E u \in Users : users[u].bankBalance > 0

\* --------------------------------------------------------- the store alone
\* Partial records a caller passes to updateUser.
PartialUpdates ==
  { [balance |-> Coins(5)],
    [xp |-> 150, level |-> 2],
    [bankBalance |-> Coins(40), lastInterestClaim |-> MsPerDay] }

\* A call of getUser, and a call of updateUser, on the store as it is.
applyGetUser(userId) ==
  /\ users' = getUser(users, userId)
  /\ UNCHANGED <<registerVars, notRegister>>

applyUpdateUser(userId, updates) ==
  /\ users' = updateUser(users, userId, updates)
  /\ UNCHANGED <<registerVars, notRegister>>

NextStore ==
  \/ \E u \in Users : applyGetUser(u)
  \/ \E u \in Users, updates \in PartialUpdates : applyUpdateUser(u, updates)

SpecStore == InitRegister /\ [][NextStore]_vars

\* C17: the record updateUser(id, partial) leaves holds the fields of partial
\* as given and every other field of the previous record unchanged; with no
\* previous record it holds every field of the default record, at its default
\* value unless partial names it.
UpdateKeepsOrCreates ==
  [][\A u \in Users : \A updates \in PartialUpdates :
       applyUpdateUser(u, updates) =>
         LET previous == IF u \in DOMAIN users THEN users[u] ELSE DefaultUser(u)
         IN  /\ DOMAIN users'[u] = DOMAIN previous \cup DOMAIN updates
             /\ \A f \in DOMAIN updates : users'[u][f] = updates[f]
             /\ \A f \in DOMAIN previous \ DOMAIN updates :
                  users'[u][f] = previous[f]]_vars

\* -------------------------------------------------------------- the router
prestigeLevel == 50
\* Jackpot entries the model takes.
MaxEntries == 2

\* db.jackpot after addJackpotEntry(userId, amount).
addJackpotEntry(jp, userId, amount) ==
  [ entries |-> Append(jp.entries, [ userId |-> userId, amount |-> amount,
                                     enteredAt |-> now, tickets |-> amount ]),
    totalAmount |-> jp.totalAmount + amount ]

handleJackpot(sender, token) ==
  LET db == getUser(users, sender)
      user == db[sender]
      bet == validateBet(token, user)
  IN  /\ UNCHANGED notJackpot
      /\ IF ~bet.ok THEN users' = db /\ UNCHANGED jackpot
         ELSE /\ Len(jackpot.entries) < MaxEntries
              /\ jackpot' = addJackpotEntry(jackpot, sender, bet.amount)
              /\ users' = updateUser(db, sender, [balance |-> user.balance - bet.amount])

handlePrestige(sender) ==
  LET db == getUser(users, sender)
      user == db[sender]
      newPrestige == user.prestige + 1
  IN  /\ UNCHANGED <<notJackpot, jackpotVars>>
      /\ IF user.level < prestigeLevel THEN users' = db
         ELSE users' = updateUser(db, sender,
                         [ prestige |-> newPrestige, level |-> 1, xp |-> 0,
                           balance |-> user.balance + Coins(10000 * newPrestige) ])

\* A command that only reads and answers: handleMessage's getUser is all it
\* does to the store.
readOnly(sender) ==
  /\ users' = getUser(users, sender)
  /\ UNCHANGED <<registerVars, notRegister>>

\* A gate that lets everyone through.
anyoneMayRun(userId) == TRUE

\* checkUserRegistered(sock, message, userId): the answer it returns (it
\* sends the registration notice when the answer is false).
checkUserRegistered(userId) == isUserRegistered(userId)

\* The senders and the command words the model sends to handleCommand:
\* commands of every family with a registration check in their case, two
\* with none, and a word that is no case of the switch.  With one username
\* to register, one sender stays unregistered whatever it sends.
Routed == {"u1", "u2"}
RouterNames == { <<"N", "e", "o">> }
\* The amounts a routed bet, jackpot entry or challenge names.
RouterBets == { [kind |-> "int", val |-> 11] }
GatedCommands ==
  { "balance", "cointoss", "jackpot", "deposit", "withdraw", "createcompany",
    "sellshares", "challenge", "prestige" }
RoutedCommands == {"register", "help", "toprich", "blacklist"} \cup GatedCommands

\* The handler the switch of handleCommand calls for a command that has
\* passed its check.
dispatch(sender, command) ==
  CASE command = "balance" -> readOnly(sender)
    [] command = "cointoss" ->
         \E t \in RouterBets, r \in CoinSides :
           handleCoinToss(sender, t, "heads", r) /\ UNCHANGED <<notGamble, bjAgain>>
    [] command = "jackpot" -> \E t \in RouterBets : handleJackpot(sender, t)
    [] command = "deposit" -> \E t \in BankTokens : handleDeposit(sender, t)
    [] command = "withdraw" -> \E t \in BankTokens : handleWithdraw(sender, t)
    [] command = "createcompany" ->
         \E t \in CreateTokens, c \in CompanyNames : handleCreateCompany(sender, t, c)
    [] command = "sellshares" ->
         \E c \in CompanyNames, q \in SellQuantities, p \in Prices, r \in IdNoise :
           handleSellShares(sender, c, q, p, r)
    [] command = "challenge" ->
         \E o \in Routed, t \in RouterBets : handleChallenge(sender, o, t)
    [] command = "prestige" -> handlePrestige(sender)

handleCommand(sender, command) ==
  CASE command = "register" -> \E name \in RouterNames : handleRegister(sender, name)
    [] command \in {"help", "toprich"} -> readOnly(sender)
    [] command \in GatedCommands ->
         IF checkUserRegistered(sender) THEN dispatch(sender, command)
         ELSE readOnly(sender)
    [] OTHER -> readOnly(sender)

\* db.blacklistUser and db.isUserBlacklisted, which handleBlacklist and
\* handleUnblacklist call: the blacklist flag of the user record.
blacklistUser(db, userId, flag) == updateUser(db, userId, [isBlacklisted |-> flag])

isUserBlacklisted(db, userId) ==
  /\ userId \in DOMAIN db
  /\ "isBlacklisted" \in DOMAIN db[userId]
  /\ db[userId].isBlacklisted

\* handleBlacklist for the username given (isOwner answers true for every
\* sender).
handleBlacklist(username) ==
  LET normalizedUsername == toLowerCase(username)
  IN  /\ UNCHANGED <<registerVars, notRegister>>
      /\ IF normalizedUsername \notin DOMAIN usernames THEN UNCHANGED users
         ELSE users' = blacklistUser(users, usernames[normalizedUsername], TRUE)

NextRouter ==
  \/ \E sender \in Routed, command \in RoutedCommands : handleCommand(sender, command)
  \/ \E name \in RouterNames : handleBlacklist(name)

SpecRouter == InitRegister /\ [][NextRouter]_vars

\* C25: a command sent by a blacklisted identity changes no ledger state.
BlacklistedIsRejected ==
  [][\A sender \in Routed, command \in RoutedCommands :
       (isUserBlacklisted(users, sender) /\ handleCommand(sender, command))
         => UNCHANGED vars]_vars

\* C26: a command of an identity that has not registered, other than
\* register, changes nothing: it does not run when its case has the
\* registration check, and the commands that run without one only read.
\* (The sender's default record, which handleMessage's getUser creates, is
\* what any read of a missing record gives.)
UnregisteredChangesNothing ==
  [][\A sender \in Routed, command \in RoutedCommands \ {"register"} :
       (~isUserRegistered(sender) /\ handleCommand(sender, command))
         => /\ users' = getUser(users, sender)
            /\ UNCHANGED <<registerVars, notRegister>>]_vars

\* An identity has sent commands without registering and holds the default
\* record, while a registered identity has bet, banked and entered the
\* jackpot.
RefusedBesideRegistered ==
  \E u \in DOMAIN users : \E v \in DOMAIN users :
    /\ ~users[u].isRegistered
    /\ users[u] = DefaultUser(u)
    /\ users[v].isRegistered
    /\ users[v].gamesPlayed > 0
    /\ users[v].bankBalance > 0
    /\ jackpot.entries # <<>>

\* ------------------------------------------------------------ daily reward
baseReward == 1000
\* streakBonus and prestigeRewardBonus, in thousandths per step.
streakBonus == 100
prestigeRewardBonus == 20

\* The clock moves in steps of StepHours hours, MaxClockSteps times.
StepHours == 16
MaxClockSteps == 4
Claimers == {"u1", "u2"}

\* user.lastDaily, 0 while the field is absent.
lastDaily(user) == IF "lastDaily" \in DOMAIN user THEN user.lastDaily ELSE 0

\* A streak that continues when the last claim is less than two days old.
within48Hours(last) == now - last < 2 * MsPerDay

\* The last claim's calendar date is the day before today's.
wasYesterday(last) == DayOf(last) = DayOf(now) - 1

handleDaily(sender) ==
  LET db == getUser(users, sender)
      user == db[sender]
      last == lastDaily(user)
      canClaim == last = 0 \/ DayOf(now) # DayOf(last)
      kept == IF last # 0 /\ ~wasYesterday(last) THEN 0 ELSE user.dailyStreak
      streak == kept + 1
      streakBonusAmount == FloorPerMille(Coins(baseReward), streak * streakBonus)
      prestigeBonusAmount ==
        FloorPerMille(Coins(baseReward), user.prestige * prestigeRewardBonus)
      totalReward == Coins(baseReward) + streakBonusAmount + prestigeBonusAmount
  IN  /\ users' = IF ~canClaim THEN db
                    ELSE updateUser(db, sender, [ balance |-> user.balance + totalReward,
                                                  lastDaily |-> now,
                                                  dailyStreak |-> streak ])
      /\ UNCHANGED <<notBank, now, bankVars>>

\* Less than a day passes.
passHours ==
  /\ now < MsPerDay + MaxClockSteps * StepHours * msPerHour
  /\ now' = now + StepHours * msPerHour
  /\ UNCHANGED <<users, notBank, bankVars>>

InitDaily == users = Registered(Claimers) /\ InitRest

NextDaily ==
  \/ passHours
  \/ \E sender \in Claimers : handleDaily(sender)

SpecDaily == InitDaily /\ [][NextDaily]_vars

\* C28: a daily claim is refused, and changes nothing, when the last claim was
\* on today's calendar date; otherwise it succeeds, stamps the claim with the
\* current time, and sets the streak to the previous streak + 1 when the last
\* claim's date is exactly the day before today, and to 1 on a first claim or
\* after any gap.
DailyOncePerDateStreakByYesterday ==
  [][\A sender \in Claimers :
       handleDaily(sender) =>
         LET user == users[sender]
             last == lastDaily(user)
         IN  IF last # 0 /\ DayOf(last) = DayOf(now)
               THEN users' = users
               ELSE /\ lastDaily(users'[sender]) = now
                    /\ users'[sender].balance > user.balance
                    /\ users'[sender].dailyStreak =
                         IF last # 0 /\ DayOf(last) + 1 = DayOf(now)
                           THEN user.dailyStreak + 1
                           ELSE 1]_vars

\* One claimer is on a two-day streak; the other claimed twice with a gap
\* between and is back at a streak of 1.
StreakKeptAndStreakReset ==
  /\ users["u1"].dailyStreak = 2
  /\ users["u2"].dailyStreak = 1
  /\ users["u2"].balance = Coins(startingBalance + 2 * (baseReward + 100))

\* --------------------------------------------------- interest by the clock
NextInterest ==
  \/ passHours
  \/ \E sender \in Savers :
       \/ \E token \in BankTokens : handleDeposit(sender, token)
       \/ \E token \in BankTokens : handleWithdraw(sender, token)
       \/ handleInterest(sender)
  \/ \E task \in BagToSet(bankTasks) : resumeDeposit(task)

SpecInterest == InitBank /\ [][NextInterest]_vars

\* C29: interest is paid at most once per calendar date per identity: a claim
\* on the date of the last paid claim is refused and leaves the record, bank
\* balance included, as it was; a claim on a later date is paid and stamped
\* whenever there is interest to pay and room in the bank, however few hours
\* have passed; and the stamp of the last paid claim is never moved back or
\* moved without a payment.
InterestOncePerDate ==
  /\ [](\A sender \in Savers :
          LET user == users[sender]
              last == lastInterestClaim(user)
              due == FloorPerMille(user.bankBalance, 10 + user.prestige)
          IN  (/\ last # 0
               /\ DayOf(last) < DayOf(now)
               /\ due > 0
               /\ user.bankBalance < user.bankCapacity)
                => ENABLED (/\ handleInterest(sender)
                            /\ users'[sender].bankBalance > user.bankBalance
                            /\ lastInterestClaim(users'[sender]) = now))
  /\ [][ /\ \A sender \in Savers :
              /\ lastInterestClaim(users'[sender]) >= lastInterestClaim(users[sender])
              /\ lastInterestClaim(users'[sender]) # lastInterestClaim(users[sender])
                   => /\ handleInterest(sender)
                      /\ DayOf(lastInterestClaim(users[sender])) # DayOf(now)
         /\ \A sender \in Savers :
              (/\ handleInterest(sender)
               /\ lastInterestClaim(users[sender]) # 0
               /\ DayOf(lastInterestClaim(users[sender])) = DayOf(now))
                => users' = users ]_vars

\* Interest paid on three dates running, the third sixteen hours after the
\* second.
PaidOnThreeDates ==
  /\ lastInterestClaim(users["u1"]) = MsPerDay + 3 * StepHours * msPerHour
  /\ DayOf(lastInterestClaim(users["u1"])) = DayOf(MsPerDay) + 2
  /\ users["u1"].bankBalance = Coins(4000 + 3 * 40)

\* ------------------------------------------------- blackjack settled once
\* The open game of the identity has been settled: its handler is at the
\* sends that come before the delete of the record.
AwaitsDelete(userId) ==
  \E task \in BagToSet(bjTasks) : task.user = userId /\ task.pc = "delete"

\* The step settles a blackjack game of the identity: updateStats is called
\* by a stand, by the bust of a hit or by the continuation of a natural.
SettlesBlackjack(userId) ==
  /\ lastSettle' # lastSettle
  /\ lastSettle'.user = userId
  /\ bjTasks' # bjTasks

\* C35: a blackjack game is settled at most once, whatever the interleaving of
\* the hit and stand commands of its player: no settlement is made for a game
\* that has been settled and awaits the delete of its record.
BlackjackSettledOnce ==
  [][\A u \in Gamblers : SettlesBlackjack(u) => ~AwaitsDelete(u)]_vars

\* ---------------------------------------------------------- challenge stake
\* C36: every challenge created, by challenge or by rematch, has a stake
\* between minBet and maxBet that exceeds neither the challenger's nor the
\* opponent's wallet at the time it is created.
CreatedStakeWithinBounds ==
  [][\A challenger \in Duelists : \A opponent \in Duelists \ {challenger} :
       LET id == <<challenger, opponent, now>>
       IN  (/\ challengeCount' = challengeCount + 1
            /\ users'[challenger].challengesMade = users[challenger].challengesMade + 1
            /\ id \in DOMAIN challenges')
             => /\ Coins(minBet) <= challenges'[id].amount
                /\ challenges'[id].amount <= Coins(maxBet)
                /\ challenges'[id].amount <= users[challenger].balance
                /\ challenges'[id].amount <= users[opponent].balance]_vars

\* ----------------------------------------------------- accept after expiry
\* C37: a challenge whose expiry time has passed when an accept is handled
\* is not resolved by it: the accept marks every such challenge expired
\* before it selects one, an overdue challenge never becomes accepted, and an
\* accept that finds only overdue challenges moves no coin.
OverdueNeverResolved ==
  [][ /\ \A id \in DOMAIN challenges :
           (challenges[id].status = "pending" /\ challenges[id].expiresAt < now)
             => /\ id \in DOMAIN challenges'
                /\ challenges'[id].status \in {"pending", "expired"}
      /\ \A u \in Duelists, r \in CoinSides :
           handleAccept(u, r)
             => /\ \A id \in DOMAIN challenges :
                     (challenges[id].status = "pending" /\ challenges[id].expiresAt < now)
                       => challenges'[id].status = "expired"
                /\ (\A id \in getPendingChallengesForUser(challenges, u) :
                      challenges[id].expiresAt < now)
                     => \A v \in DOMAIN users : FundsUnchanged(v) ]_vars

\* Two challenges were pending for one opponent when the first had run out:
\* the older one is expired, the newer one was accepted at its last moment.
OlderExpiredNewerAccepted ==
  \E c1 \in DOMAIN challenges, c2 \in DOMAIN challenges :
    /\ challenges[c1].opponent = challenges[c2].opponent
    /\ challenges[c1].status = "expired"
    /\ challenges[c2].status = "accepted"
    /\ challenges[c1].expiresAt < now
    /\ challenges[c2].expiresAt = now
    /\ challenges[c2].createdAt < challenges[c1].expiresAt

\* ------------------------------------------------------ shares and escrow

TransferQuantities == {20}
Transferors == {"u1"}
EscrowQuantities == {20}
ShareBuys == {7, 20}
ShareNoise == {0}
ShareWithdrawals == { [kind |-> "int", val |-> 2000] }
\* Shares of one company a recipient may hold before the model stops
\* transferring to them.
MaxHeld == 120
\* Company commands carried out between share trades.
MaxShareOps == 3

\* handleTransfer: the sender's record and then the recipient's are read, the
\* sender's shares are written, then the recipient's from the record read
\* before that write.
handleTransfer(sender, companyName, recipient, quantity) ==
  LET db == getUser(users, sender)
      user == db[sender]
      userShares == Get(user.shares, companyName)
      withRecipient == getUser(db, recipient)
      recipientUser == withRecipient[recipient]
      left == userShares - quantity
      senderWritten == updateUser(withRecipient, sender,
                         [shares |-> IF left = 0 THEN DelKey(user.shares, companyName)
                                     ELSE SetKey(user.shares, companyName, left)])
  IN  /\ UNCHANGED <<notMarket, marketVars>>
      /\ IF quantity <= 0 \/ ~HasCompany(companyName) \/ userShares < quantity
           THEN users' = db
           ELSE users' = updateUser(senderWritten, recipient,
                  [shares |-> SetKey(recipientUser.shares, companyName,
                                     Get(recipientUser.shares, companyName) + quantity)])

NextShares ==
  \/ \E u \in Traders, c \in CompanyNames :
        /\ handleCreateCompany(u, [kind |-> "int", val |-> minCompanyInvestment], c)
        /\ UNCHANGED marketVars
  \/ \E u \in Traders, c \in CompanyNames :
        /\ companyOps < MaxShareOps
        /\ handleCompanyInvest(u, c, [kind |-> "int", val |-> 4000])
  \/ \E u \in Traders, c \in CompanyNames, t \in ShareWithdrawals :
        /\ companyOps < MaxShareOps
        /\ handleCompanyWithdraw(u, c, t)
  \/ \E u \in Traders, c \in CompanyNames, q \in EscrowQuantities, p \in Prices, r \in ShareNoise :
        handleSellShares(u, c, q, p, r)
  \/ \E u \in Traders, id \in KnownIds, q \in ShareBuys, r \in ShareNoise :
        handleBuyShares(u, id, q, r)
  \/ \E u \in Traders, id \in KnownIds : handleCancelOrder(u, id)
  \/ \E u \in Transferors, c \in CompanyNames, v \in Traders, q \in TransferQuantities :
        /\ v \in DOMAIN users => Get(users[v].shares, c) + q <= MaxHeld
        /\ handleTransfer(u, c, v, q)

SpecShares == InitCompany /\ [][NextShares]_vars

\* The shares of company c in the balances of the users ids of the store db.
RECURSIVE SharesInBalances(_, _, _)
SharesInBalances(db, ids, c) ==
  IF ids = {} THEN 0
  ELSE LET u == CHOOSE x \in ids : TRUE
       IN  Get(db[u].shares, c) + SharesInBalances(db, ids \ {u}, c)

\* The shares of company c in the first n orders of the book.
RECURSIVE SharesInOrders(_, _, _)
SharesInOrders(book, n, c) ==
  IF n = 0 THEN 0
  ELSE (IF book[n].company = c THEN book[n].quantity ELSE 0) + SharesInOrders(book, n - 1, c)

\* Balances plus open sell orders.
SharesHeld(db, book, c) ==
  SharesInBalances(db, DOMAIN db, c) + SharesInOrders(book, Len(book), c)

\* C38: a step that is no company command (a sell, buy, cancel or transfer)
\* keeps, for every company, the sum of the shares in the users' balances and
\* in the open sell orders; an invest or withdraw changes the share balance of
\* the user who acts by exactly the shares the company's distribution gained
\* or lost for them, and nobody else's.
SharesAndEscrowConserved ==
  [][\A c \in CompanyNames :
       /\ companies' = companies =>
            SharesHeld(users', orders', c) = SharesHeld(users, orders, c)
       /\ \A u \in Traders :
            (/\ c \in DOMAIN companies
             /\ \/ \E t \in ShareWithdrawals : handleCompanyWithdraw(u, c, t)
                \/ handleCompanyInvest(u, c, [kind |-> "int", val |-> 4000]))
            => /\ Get(users'[u].shares, c) - Get(users[u].shares, c)
                    = Get(companies'[c].shareDistribution, u)
                        - Get(companies[c].shareDistribution, u)
               /\ \A v \in DOMAIN users \ {u} : users'[v].shares = users[v].shares]_vars

\* ------------------------------------------------------- close is terminal

NextTerminal ==
  \/ NextClose
  \/ \E u \in Investors, c \in CompanyNames, k \in Investors : handleCompanyKick(u, c, k)

SpecTerminal == InitClose /\ [][NextTerminal]_vars

\* The company c has been closed.
Closed(c) ==
  /\ c \in DOMAIN companies
  /\ "closed" \in DOMAIN companies[c]
  /\ companies[c].closed

\* C39: once a company is closed no step credits or debits a wallet (the
\* companies of the model are the only source of wallet changes here), and no
\* investor is ever paid back more than they put in: a wallet never exceeds
\* what it was granted, whatever is handled while a close is sending its
\* notices.
ClosedIsTerminal ==
  /\ [][(\E c \in CompanyNames : Closed(c)) =>
          \A u \in DOMAIN users : users'[u].balance = users[u].balance]_vars
  /\ [](\A u \in DOMAIN users : users[u].balance <= Coins(GrantedWallet))

\* ----------------------------------------------------- an order keeps its id

\* C40: an order that is in the book before and after a step has the same id
\* after it; in particular, when a buy takes part of an order, the rest is
\* found under the id the seller was given, with the quantity that is left.
OrderKeepsItsId ==
  [][\A i \in 1..Len(orders) : \A j \in 1..Len(orders') :
       orders'[j].listing = orders[i].listing =>
         /\ orders'[j].id = orders[i].id
         /\ FindIndex(orders', orders[i].id) = j]_vars

\* ------------------------------------------------------------ expiry sweep
\* The program as it runs when commands may stop coming: time goes on, and a
\* command is handled only if one is sent.  (The one timer of the program,
\* the autosave, writes the store to disk and changes nothing in it.)
SpecSweep == Init /\ [][NextPvp]_vars /\ WF_vars(passTime)

\* The challenge is pending and its expiry time has passed.
Overdue(id) ==
  /\ id \in DOMAIN challenges
  /\ challenges[id].status = "pending"
  /\ challenges[id].expiresAt < now

Expired(id) == id \in DOMAIN challenges /\ challenges[id].status = "expired"

\* C34: a pending challenge whose expiry time has passed is eventually marked
\* expired, whether or not another command is ever received.
OverdueEventuallyExpired ==
  \A challenger \in Duelists, opponent \in Duelists, step \in 0..MaxHalfSteps :
    Overdue(<<challenger, opponent, MsPerDay + step * HalfTimeout>>)
      ~> Expired(<<challenger, opponent, MsPerDay + step * HalfTimeout>>)

\* -------------------------------------------------------- bet validation
\* C32: for every wallet the program reaches and every amount word,
\* validateBet succeeds exactly when the resolved amount (the whole wallet for
\* "all") is a positive integer with minBet <= amount <= maxBet and
\* amount <= wallet, and it then returns that amount; in every other case it
\* fails.
ValidateBetAcceptsExactlyValid ==
  \A u \in DOMAIN users, token \in BetTokens :
    LET user == users[u]
        resolved == ParseAmount(token, user.balance)
        valid == /\ ~resolved.nan
                 /\ resolved.val > 0
                 /\ IsWhole(resolved.val)
                 /\ Coins(minBet) <= resolved.val
                 /\ resolved.val <= Coins(maxBet)
                 /\ resolved.val <= user.balance
        bet == validateBet(token, user)
    IN  /\ bet.ok <=> valid
        /\ bet.ok => bet.amount = resolved.val

\* ------------------------------------------------------- level and prestige
\* The XP amounts an owner sets: none, enough for level 8, enough for
\* prestigeLevel.
XpAmounts == {0, 5000, 240100}
Levellers == {"u1"}

\* handleSetXP for the username and amount given (isOwner answers true for
\* every sender): the new level is computed for the reply only.
handleSetXP(username, amount) ==
  LET normalizedUsername == toLowerCase(username)
  IN  /\ UNCHANGED <<registerVars, notRegister>>
      /\ IF normalizedUsername \notin DOMAIN usernames THEN UNCHANGED users
         ELSE users' = updateUser(users, usernames[normalizedUsername], [xp |-> amount])

NextLevel ==
  \/ \E u \in Levellers, t \in BetTokens, c \in CoinSides, r \in CoinSides :
        handleCoinToss(u, t, c, r) /\ UNCHANGED <<notGamble, bjAgain>>
  \/ \E u \in Levellers : handlePrestige(u)
  \/ \E u \in Levellers, amount \in XpAmounts : handleSetXP(HandleOf(u), amount)

SpecLevel == Init /\ [][NextLevel]_vars

\* C33: in every reachable state the level of every user is
\* floor(sqrt(xp / 100) + 1) of the user's xp, and a level goes down only by a
\* prestige, taken at a level of at least prestigeLevel, which sets level 1
\* and xp 0.
LevelFollowsXp ==
  /\ [](\A u \in DOMAIN users : users[u].level = calculateLevel(users[u].xp))
  /\ [][\A u \in DOMAIN users :
          users'[u].level < users[u].level
            => /\ handlePrestige(u)
               /\ users[u].level >= prestigeLevel
               /\ users'[u].level = 1
               /\ users'[u].xp = 0]_vars

\* ------------------------------------------------------------ jackpot draw
\* drawJackpot(entries) for a winning ticket in 1..total tickets: the first
\* entry at which the running count of tickets reaches the winning ticket.
RECURSIVE ticketsUpTo(_, _)
ticketsUpTo(entries, n) ==
  IF n = 0 THEN 0 ELSE ticketsUpTo(entries, n - 1) + entries[n].tickets

drawJackpot(entries, winningTicket) ==
  entries[CHOOSE i \in 1..Len(entries) :
            /\ winningTicket <= ticketsUpTo(entries, i)
            /\ \A j \in 1..(i - 1) : winningTicket > ticketsUpTo(entries, j)]

\* db.jackpot after resetJackpot().
resetJackpot(jp) == [ entries |-> <<>>, totalAmount |-> 0 ]

\* The steps of the program that touch the jackpot: entries by the jackpot
\* command, and time passing.  No command, timer or start-up code calls
\* drawJackpot or resetJackpot.
NextJackpot ==
  \/ passHour
  \/ \E sender \in Users, token \in BetTokens : handleJackpot(sender, token)

SpecJackpot == Init /\ [][NextJackpot]_vars /\ WF_vars(NextJackpot)

\* C31: whenever the jackpot pool holds an entry, a draw eventually empties
\* the pool (and credits the pool total to one of the entrants).
JackpotEventuallyDrawn ==
  (jackpot.entries # <<>>) ~> (jackpot.entries = <<>> /\ jackpot.totalAmount = 0)

====
